---- MODULE Spec2Model ----
(***************************************************************************)
(* Node Manager (dlrover/python/master/node_manager/node_manager.py) and   *)
(* Job Auto-Scaler (dlrover/python/master/node/job_auto_scaler.py).        *)
(*                                                                         *)
(* The monitor thread lists the job's pods, replays each listed pod as a   *)
(* mock event, marks the missing pods released, then consumes the watch    *)
(* stream; every event goes through _process_event, which applies the      *)
(* status flow, fans out the callbacks and decides the relaunch.           *)
(***************************************************************************)
EXTENDS Integers, Sequences, FiniteSets, TLC

\* ------------------------------------------------------------------------
\* Bounds of the model (not program constants)
\* ------------------------------------------------------------------------

\* Events that would take a node's relaunch_count beyond this are not sent.
MaxRelaunchSeen == 3

\* Number of listeners that add_pod_event_callback may subscribe.
MaxListeners == 1

\* Optimization loop threads that can be alive together; start_auto_scaling
\* is not called when it would spawn one more.
MaxLoops == 2

\* Events a watch() can hold before the monitor takes one.
MaxStream == 2

\* ------------------------------------------------------------------------
\* Enumerations (dlrover.python.common.constants)
\* ------------------------------------------------------------------------

INITIAL == "Initial"
PENDING == "Pending"
RUNNING == "Running"
SUCCEEDED == "Succeeded"
FAILED == "Failed"
DELETED == "Deleted"

NodeStatus == {INITIAL, PENDING, RUNNING, SUCCEEDED, FAILED, DELETED}

ADDED == "ADDED"
MODIFIED == "MODIFIED"
EVENT_DELETED == "DELETED"

NodeEventType == {ADDED, MODIFIED, EVENT_DELETED}

NoReason == "none"
FATAL_ERROR == "fatal_error"
OOM == "oom"
KILLED == "killed"
UNKNOWN_ERROR == "unknown_error"

NodeExitReason == {FATAL_ERROR, OOM, KILLED, UNKNOWN_ERROR}

PS == "ps"
WORKER == "worker"

PARAMETER_SERVER == "ParameterServerStrategy"
CUSTOM == "CustomStrategy"
ALLREDUCE == "AllreduceStrategy"

\* NodeResourceBoundary.MAX_MEMORY, in MB
MAX_MEMORY == 65536

\* Global cap of the relaunch budgets
MAX_POD_RELAUNCH_COUNT == 5

Min(a, b) == IF a < b THEN a ELSE b

\* ------------------------------------------------------------------------
\* Status flow table (status_flow.py)
\* ------------------------------------------------------------------------

Flow(from, type, to, relaunch) ==
    [from_status |-> from, event_type |-> type, to_status |-> to,
     should_relaunch |-> relaunch]

\* Variant: the SUCCEEDED -> DELETED row asks for a relaunch.
NODE_STATE_FLOWS_succeeded_relaunch ==
    << Flow(INITIAL, MODIFIED, PENDING, FALSE),
       Flow(INITIAL, MODIFIED, RUNNING, FALSE),
       Flow(PENDING, MODIFIED, RUNNING, FALSE),
       Flow(PENDING, MODIFIED, SUCCEEDED, FALSE),
       Flow(PENDING, MODIFIED, FAILED, TRUE),
       Flow(RUNNING, MODIFIED, SUCCEEDED, FALSE),
       Flow(RUNNING, MODIFIED, FAILED, TRUE),
       Flow(PENDING, EVENT_DELETED, DELETED, TRUE),
       Flow(RUNNING, EVENT_DELETED, DELETED, TRUE),
       Flow(SUCCEEDED, EVENT_DELETED, DELETED, TRUE),
       Flow(FAILED, EVENT_DELETED, DELETED, FALSE) >>

\* NODE_STATE_FLOWS[i] of the program is NODE_STATE_FLOWS[i + 1] here.
NODE_STATE_FLOWS ==
    << Flow(INITIAL, MODIFIED, PENDING, FALSE),
       Flow(INITIAL, MODIFIED, RUNNING, FALSE),
       Flow(PENDING, MODIFIED, RUNNING, FALSE),
       Flow(PENDING, MODIFIED, SUCCEEDED, FALSE),
       Flow(PENDING, MODIFIED, FAILED, TRUE),
       Flow(RUNNING, MODIFIED, SUCCEEDED, FALSE),
       Flow(RUNNING, MODIFIED, FAILED, TRUE),
       Flow(PENDING, EVENT_DELETED, DELETED, TRUE),
       Flow(RUNNING, EVENT_DELETED, DELETED, TRUE),
       Flow(SUCCEEDED, EVENT_DELETED, DELETED, FALSE),
       Flow(FAILED, EVENT_DELETED, DELETED, FALSE) >>

NoFlow == 0

\* Variant: the status the event carries is not compared.
get_node_state_flow_any_target(from_status, event_type, new_status) ==
    LET hits == { i \in DOMAIN NODE_STATE_FLOWS :
                    /\ NODE_STATE_FLOWS[i].from_status = from_status
                    /\ NODE_STATE_FLOWS[i].event_type = event_type }
    IN IF hits = {} THEN NoFlow
       ELSE CHOOSE i \in hits : \A j \in hits : i <= j

\* The index of the matching flow, NoFlow (None) when no row matches.
get_node_state_flow(from_status, event_type, new_status) ==
    LET hits == { i \in DOMAIN NODE_STATE_FLOWS :
                    /\ NODE_STATE_FLOWS[i].from_status = from_status
                    /\ NODE_STATE_FLOWS[i].event_type = event_type
                    /\ NODE_STATE_FLOWS[i].to_status = new_status }
    IN IF hits = {} THEN NoFlow
       ELSE CHOOSE i \in hits : \A j \in hits : i <= j

\* ------------------------------------------------------------------------
\* Job configuration (create_node_manager, job_config.py)
\* ------------------------------------------------------------------------

\* critical_worker_index: "default", "all" or "i:n".
get_critical_worker_index(a) ==
    CASE a.critical_worker_index = "default" -> [i \in {0} |-> 1]
      [] a.critical_worker_index = "all" ->
             [i \in 0 .. (a.num_workers - 1) |-> 1]
      [] a.critical_worker_index = "0:3" -> [i \in {0} |-> 3]
      [] a.critical_worker_index = "1:2" -> [i \in {1} |-> 2]

\* The arguments as create_node_manager leaves them.
create_node_manager(a) ==
    [a EXCEPT !.relaunch_on_worker_failure =
        IF a.distribution_strategy # PARAMETER_SERVER
           /\ a.distribution_strategy # CUSTOM
        THEN 0
        ELSE Min(a.relaunch_on_worker_failure, MAX_POD_RELAUNCH_COUNT),
     !.ps_relaunch_max_num =
        Min(a.ps_relaunch_max_num, MAX_POD_RELAUNCH_COUNT)]

\* Variant: every strategy waits for pending relaunches.
wait_pending_relaunch_always(a) == TRUE

wait_pending_relaunch(a) == a.distribution_strategy = CUSTOM

NodesOf(a) ==
    {<<PS, i>> : i \in 0 .. (a.num_ps_pods - 1)}
        \cup {<<WORKER, i>> : i \in 0 .. (a.num_workers - 1)}

\* A node as init_job_node_meta creates it.
init_job_node_meta(a, n) ==
    [status |-> INITIAL,
     exit_reason |-> NoReason,
     relaunch_count |-> 0,
     max_relaunch_count |-> a.relaunch_on_worker_failure,
     critical |-> FALSE,
     relaunchable |-> TRUE,
     is_released |-> FALSE,
     is_recovered_oom |-> FALSE,
     memory |-> IF n[1] = PS THEN a.ps_memory ELSE a.worker_memory]

\* Variant: a critical worker keeps the budget of init_job_node_meta.
set_critical_node_keeps_budget(a, n, node) ==
    LET cwi == get_critical_worker_index(a)
    IN IF n[1] = PS
       THEN [node EXCEPT !.critical = a.ps_is_critical,
                         !.max_relaunch_count =
                             IF a.ps_is_critical THEN a.ps_relaunch_max_num
                             ELSE @]
       ELSE IF n[2] \in DOMAIN cwi
            THEN [node EXCEPT !.critical = TRUE]
            ELSE node

set_critical_node(a, n, node) ==
    LET cwi == get_critical_worker_index(a)
    IN IF n[1] = PS
       THEN [node EXCEPT !.critical = a.ps_is_critical,
                         !.max_relaunch_count =
                             IF a.ps_is_critical THEN a.ps_relaunch_max_num
                             ELSE @]
       ELSE IF n[2] \in DOMAIN cwi
            THEN [node EXCEPT !.critical = TRUE,
                              !.max_relaunch_count = cwi[n[2]]]
            ELSE node

\* NodeManager._init_attr_for_typed_pods
init_attr_for_typed_pods(a) ==
    [n \in NodesOf(a) |-> set_critical_node(a, n, init_job_node_meta(a, n))]

relaunch_pod == TRUE

\* ------------------------------------------------------------------------
\* State
\* ------------------------------------------------------------------------

VARIABLES
    args,                   \* the job arguments, after create_node_manager
    job_nodes,              \* NodeManager._job_nodes: (type, id) -> Node
    pod_event_callbacks,    \* number of subscribed listeners (list length)
    pending_relaunch_count, \* NodeManager._pending_relaunch_count
    monitor,                \* position of the monitor thread
    todo,                   \* listed nodes not yet replayed as mock events
    exist_pods,             \* ids collected by _process_list_nodes
    call,                   \* the event and the locals of the _process_event
                            \* call that has left its locked section
    suggested_stop,         \* JobAutoScaler._suggested_stop
    autoscaling_started,    \* JobAutoScaler._autoscaling_started
    fired,                  \* history: callback each listener got in the call
    killed_relaunched,      \* history: nodes relaunched for exit reason KILLED
    mark_count,             \* history: times line 231 marked the node released
    since_release,          \* history: relaunches since a RUNNING node was
                            \* marked released, while only DELETED events
                            \* followed (-1: not tracked)
    scaler_kind,            \* the variant new_job_auto_scaler built
    context,                \* the switches of the global Context, and
                            \* whether the scaler was given a perf monitor
    perf_target,            \* PerfMonitor's target worker number (-1: not
                            \* set yet)
    job_resource,           \* JobResource: declared count of each group
    loops,                  \* the optimization loop threads
    reducer,                \* the pending-node reducer thread
    since_request,          \* history: time since the last plan request
                            \* of a PS optimization loop (-1: none yet)
    effect,                 \* history: what the last auto-scaler step did
    stop_process_event,     \* NodeManager._stop_process_event
    uncaught,               \* the exception that ended the monitor thread
    training_dataset,       \* NodeManager._training_dataset
    stream,                 \* the events the running watch() has yet to
                            \* yield, the earliest first
    lock,                   \* NodeManager._lock: the thread that holds it
    callers,                \* threads calling _process_event side by side:
                            \* position, event and locals of each
    writes                  \* history: the writes to node fields of the last
                            \* monitor step, each with whether _lock was held

vars == << args, job_nodes, pod_event_callbacks, pending_relaunch_count,
           monitor, todo, exist_pods, call, suggested_stop,
           autoscaling_started, fired, killed_relaunched, mark_count,
           since_release, scaler_kind, context, perf_target, job_resource,
           loops, reducer, since_request, effect, stop_process_event,
           uncaught, training_dataset, stream, lock, callers, writes >>

\* The state of the job auto-scaler and of its collaborators.
as_vars == << suggested_stop, autoscaling_started, scaler_kind, context,
             perf_target, job_resource, loops, reducer, since_request,
             effect >>

\* The state of the Node Manager.
nm_vars == << args, job_nodes, pod_event_callbacks, pending_relaunch_count,
             monitor, todo, exist_pods, call, fired, killed_relaunched,
             mark_count, since_release, stop_process_event, uncaught,
             training_dataset, stream, lock, callers,
             writes >>

\* What the steps of a healthy monitor loop leave alone.
stop_vars == << stop_process_event, uncaught, training_dataset, stream,
               lock, callers >>

Listeners == 1 .. MaxListeners

\* The threads that call _process_event: the monitor thread that start()
\* spawns, and the thread that called start() and calls it directly.
Callers == {"monitor", "main"}

\* threading.Lock(): no thread holds it
NoThread == "none"

NoEvent == [node |-> << "none", 0 >>, event_type |-> "none",
            status |-> "none", exit_reason |-> "none"]

\* A thread outside _process_event.
IdleCaller == [pc |-> "idle", event |-> NoEvent, before |-> [status |-> "none"],
               old_status |-> "none", flow |-> 0, should_relaunch |-> FALSE]

NoNode == <<"none", 0>>

NoCall == [node |-> NoNode, event_type |-> "none", status |-> "none",
           exit_reason |-> NoReason,
           old_status |-> "none", old_count |-> 0, flow |-> NoFlow,
           returned_early |-> FALSE, should_relaunch |-> FALSE]

InCall == monitor \in {"list_called", "watch_called"}

\* ------------------------------------------------------------------------
\* NodeManager._should_relaunch and _process_node_events
\* ------------------------------------------------------------------------

\* Variant: the budget of an ordinary failure is never checked.
should_relaunch_no_budget(node, flow) ==
    LET eligible == /\ NODE_STATE_FLOWS[flow].should_relaunch
                    /\ relaunch_pod
                    /\ node.relaunchable
        oom_ok == /\ ~(node.memory > MAX_MEMORY)
                  /\ ~(node.relaunch_count >= node.max_relaunch_count)
        decided ==
            IF ~eligible THEN FALSE
            ELSE IF node.exit_reason = FATAL_ERROR THEN FALSE
            ELSE IF node.exit_reason = OOM THEN oom_ok
            ELSE TRUE
    IN [should_relaunch |-> decided,
        node |-> [node EXCEPT
                    !.is_recovered_oom =
                        IF eligible /\ node.exit_reason = OOM /\ oom_ok
                        THEN TRUE ELSE @,
                    !.relaunch_count = IF decided THEN @ + 1 ELSE @]]

\* Variant: the budget of an ordinary failure is one relaunch too large.
should_relaunch_off_by_one(node, flow) ==
    LET eligible == /\ NODE_STATE_FLOWS[flow].should_relaunch
                    /\ relaunch_pod
                    /\ node.relaunchable
        oom_ok == /\ ~(node.memory > MAX_MEMORY)
                  /\ ~(node.relaunch_count >= node.max_relaunch_count)
        decided ==
            IF ~eligible THEN FALSE
            ELSE IF node.exit_reason = FATAL_ERROR THEN FALSE
            ELSE IF node.exit_reason = OOM THEN oom_ok
            ELSE IF node.exit_reason # KILLED
                 THEN ~(node.relaunch_count > node.max_relaunch_count + 1)
                 ELSE TRUE
    IN [should_relaunch |-> decided,
        node |-> [node EXCEPT
                    !.is_recovered_oom =
                        IF eligible /\ node.exit_reason = OOM /\ oom_ok
                        THEN TRUE ELSE @,
                    !.relaunch_count = IF decided THEN @ + 1 ELSE @]]

\* Variant: a killed node is handled like a fatal error.
should_relaunch_killed_fatal(node, flow) ==
    LET eligible == /\ NODE_STATE_FLOWS[flow].should_relaunch
                    /\ relaunch_pod
                    /\ node.relaunchable
        oom_ok == /\ ~(node.memory > MAX_MEMORY)
                  /\ ~(node.relaunch_count >= node.max_relaunch_count)
        decided ==
            IF ~eligible THEN FALSE
            ELSE IF node.exit_reason \in {FATAL_ERROR, KILLED} THEN FALSE
            ELSE IF node.exit_reason = OOM THEN oom_ok
            ELSE ~(node.relaunch_count > node.max_relaunch_count)
    IN [should_relaunch |-> decided,
        node |-> [node EXCEPT
                    !.is_recovered_oom =
                        IF eligible /\ node.exit_reason = OOM /\ oom_ok
                        THEN TRUE ELSE @,
                    !.relaunch_count = IF decided THEN @ + 1 ELSE @]]

\* Variant: the budget of an OOM node is compared with > instead of >=.
should_relaunch_oom_gt(node, flow) ==
    LET eligible == /\ NODE_STATE_FLOWS[flow].should_relaunch
                    /\ relaunch_pod
                    /\ node.relaunchable
        oom_ok == /\ ~(node.memory > MAX_MEMORY)
                  /\ ~(node.relaunch_count > node.max_relaunch_count)
        decided ==
            IF ~eligible THEN FALSE
            ELSE IF node.exit_reason = FATAL_ERROR THEN FALSE
            ELSE IF node.exit_reason = OOM THEN oom_ok
            ELSE IF node.exit_reason # KILLED
                 THEN ~(node.relaunch_count > node.max_relaunch_count)
                 ELSE TRUE
    IN [should_relaunch |-> decided,
        node |-> [node EXCEPT
                    !.is_recovered_oom =
                        IF eligible /\ node.exit_reason = OOM /\ oom_ok
                        THEN TRUE ELSE @,
                    !.relaunch_count = IF decided THEN @ + 1 ELSE @]]

\* Variant: the memory ceiling of an OOM node is not checked.
should_relaunch_no_ceiling(node, flow) ==
    LET eligible == /\ NODE_STATE_FLOWS[flow].should_relaunch
                    /\ relaunch_pod
                    /\ node.relaunchable
        oom_ok == ~(node.relaunch_count >= node.max_relaunch_count)
        decided ==
            IF ~eligible THEN FALSE
            ELSE IF node.exit_reason = FATAL_ERROR THEN FALSE
            ELSE IF node.exit_reason = OOM THEN oom_ok
            ELSE IF node.exit_reason # KILLED
                 THEN ~(node.relaunch_count > node.max_relaunch_count)
                 ELSE TRUE
    IN [should_relaunch |-> decided,
        node |-> [node EXCEPT
                    !.is_recovered_oom =
                        IF eligible /\ node.exit_reason = OOM /\ oom_ok
                        THEN TRUE ELSE @,
                    !.relaunch_count = IF decided THEN @ + 1 ELSE @]]

\* Variant: an ordinary failure is refused once the count equals the budget.
should_relaunch_strict_budget(node, flow) ==
    LET eligible == /\ NODE_STATE_FLOWS[flow].should_relaunch
                    /\ relaunch_pod
                    /\ node.relaunchable
        oom_ok == /\ ~(node.memory > MAX_MEMORY)
                  /\ ~(node.relaunch_count >= node.max_relaunch_count)
        decided ==
            IF ~eligible THEN FALSE
            ELSE IF node.exit_reason = FATAL_ERROR THEN FALSE
            ELSE IF node.exit_reason = OOM THEN oom_ok
            ELSE IF node.exit_reason # KILLED
                 THEN ~(node.relaunch_count >= node.max_relaunch_count)
                 ELSE TRUE
    IN [should_relaunch |-> decided,
        node |-> [node EXCEPT
                    !.is_recovered_oom =
                        IF eligible /\ node.exit_reason = OOM /\ oom_ok
                        THEN TRUE ELSE @,
                    !.relaunch_count = IF decided THEN @ + 1 ELSE @]]

\* Variant: a KILLED node is held to the budget of an ordinary failure.
should_relaunch_killed_budget(node, flow) ==
    LET eligible == /\ NODE_STATE_FLOWS[flow].should_relaunch
                    /\ relaunch_pod
                    /\ node.relaunchable
        oom_ok == /\ ~(node.memory > MAX_MEMORY)
                  /\ ~(node.relaunch_count >= node.max_relaunch_count)
        decided ==
            IF ~eligible THEN FALSE
            ELSE IF node.exit_reason = FATAL_ERROR THEN FALSE
            ELSE IF node.exit_reason = OOM THEN oom_ok
            ELSE ~(node.relaunch_count > node.max_relaunch_count)
    IN [should_relaunch |-> decided,
        node |-> [node EXCEPT
                    !.is_recovered_oom =
                        IF eligible /\ node.exit_reason = OOM /\ oom_ok
                        THEN TRUE ELSE @,
                    !.relaunch_count = IF decided THEN @ + 1 ELSE @]]

\* The decision and the node as the decision leaves it.
should_relaunch(node, flow) ==
    LET eligible == /\ NODE_STATE_FLOWS[flow].should_relaunch
                    /\ relaunch_pod
                    /\ node.relaunchable
        oom_ok == /\ ~(node.memory > MAX_MEMORY)
                  /\ ~(node.relaunch_count >= node.max_relaunch_count)
        decided ==
            IF ~eligible THEN FALSE
            ELSE IF node.exit_reason = FATAL_ERROR THEN FALSE
            ELSE IF node.exit_reason = OOM THEN oom_ok
            ELSE IF node.exit_reason # KILLED
                 THEN ~(node.relaunch_count > node.max_relaunch_count)
                 ELSE TRUE
    IN [should_relaunch |-> decided,
        node |-> [node EXCEPT
                    !.is_recovered_oom =
                        IF eligible /\ node.exit_reason = OOM /\ oom_ok
                        THEN TRUE ELSE @,
                    !.relaunch_count = IF decided THEN @ + 1 ELSE @]]

\* Variant: on_node_deleted fires whatever the flow's from_status.
process_node_events_any_deleted(flow) ==
    LET f == NODE_STATE_FLOWS[flow]
    IN IF f.to_status = RUNNING THEN "on_node_started"
       ELSE IF f.to_status = SUCCEEDED THEN "on_node_succeeded"
       ELSE IF f.to_status = FAILED THEN "on_node_failed"
       ELSE IF f.to_status = DELETED THEN "on_node_deleted"
       ELSE "none"

\* The callback _process_node_events invokes on every listener.
process_node_events(flow) ==
    LET f == NODE_STATE_FLOWS[flow]
    IN IF f.to_status = RUNNING THEN "on_node_started"
       ELSE IF f.to_status = SUCCEEDED THEN "on_node_succeeded"
       ELSE IF f.to_status = FAILED THEN "on_node_failed"
       ELSE IF /\ f.from_status # FAILED
               /\ f.from_status # SUCCEEDED
               /\ f.to_status = DELETED
            THEN "on_node_deleted"
       ELSE "none"

\* Variant: DELETED, which is no pod phase, is not stored.
update_status_phase_only(node, new_status) ==
    IF new_status = DELETED THEN node ELSE [node EXCEPT !.status = new_status]

\* cur_node.update_status(new_status)
update_status(node, new_status) == [node EXCEPT !.status = new_status]

\* Variant: only a missing flow returns early.
returns_early_flow_only(flow) == flow = NoFlow

\* "If there is no matched state change / the pod has been succeed, return"
returns_early(flow) ==
    \/ flow = NoFlow
    \/ NODE_STATE_FLOWS[flow].from_status = SUCCEEDED

\* The locked section of _process_event on the node `cur`:
\* the node afterwards, the flow, the callback and the decision.
process_event_locked(cur, e) ==
    LET old_status == cur.status
        flow == get_node_state_flow(old_status, e.event_type, e.status)
        updated == update_status(cur, e.status)
        reasoned == [updated EXCEPT !.exit_reason = e.exit_reason]
        dec == should_relaunch(reasoned, flow)
    IN IF returns_early(flow)
       THEN [node |-> updated, old_status |-> old_status, flow |-> flow,
             returned_early |-> TRUE,
             callback |-> "none", should_relaunch |-> FALSE]
       ELSE [node |-> dec.node, old_status |-> old_status, flow |-> flow,
             returned_early |-> FALSE,
             callback |-> process_node_events(flow),
             should_relaunch |-> dec.should_relaunch]

Write(field, locked) == [field |-> field, locked |-> locked]

\* The fields of the node that one _process_event call writes, with result
\* `r`: update_info runs before `with self._lock`, the rest inside it.
process_event_writes(r) ==
    {Write("info", FALSE), Write("status", TRUE)}
        \cup (IF r.returned_early THEN {} ELSE {Write("exit_reason", TRUE)})
        \cup (IF r.should_relaunch THEN {Write("relaunch_count", TRUE)}
              ELSE {})

\* ------------------------------------------------------------------------
\* Events
\* ------------------------------------------------------------------------

\* Status a pod snapshot can carry (INITIAL is not a pod phase).
EventStatus == NodeStatus \ {INITIAL}

Snapshot(status, reason) == [status |-> status, exit_reason |-> reason]

\* Every snapshot of a pod: a terminated or deleted pod has an exit reason.
AllSnapshots ==
    {Snapshot(s, NoReason) : s \in EventStatus}
        \cup {Snapshot(s, r) : s \in {FAILED, DELETED}, r \in NodeExitReason}

NodeEvent(n, type, snapshot) ==
    [node |-> n, event_type |-> type, status |-> snapshot.status,
     exit_reason |-> snapshot.exit_reason]

\* _process_event(e) up to the release of the lock; `called` is the
\* position of the monitor inside the call.
ProcessEvent(e, called) ==
    LET n == e.node
        r == process_event_locked(job_nodes[n], e)
        deleted_again == e.event_type = EVENT_DELETED /\ e.status = DELETED
    IN /\ r.node.relaunch_count <= MaxRelaunchSeen
       /\ job_nodes' = [job_nodes EXCEPT ![n] = r.node]
       /\ fired' = [l \in Listeners |->
                       IF l <= pod_event_callbacks THEN r.callback ELSE "none"]
       /\ pending_relaunch_count' =
              IF r.should_relaunch /\ wait_pending_relaunch(args)
              THEN pending_relaunch_count + 1
              ELSE pending_relaunch_count
       /\ monitor' = called
       /\ call' = [node |-> n, event_type |-> e.event_type,
                   status |-> e.status,
                   exit_reason |-> e.exit_reason,
                   old_status |-> r.old_status,
                   old_count |-> job_nodes[n].relaunch_count,
                   flow |-> r.flow,
                   returned_early |-> r.returned_early,
                   should_relaunch |-> r.should_relaunch]
       /\ killed_relaunched' =
              IF r.should_relaunch /\ e.exit_reason = KILLED
              THEN killed_relaunched \cup {n}
              ELSE killed_relaunched
       /\ since_release' =
              [since_release EXCEPT ![n] =
                  IF @ = -1 THEN -1
                  ELSE IF ~deleted_again THEN -1
                  ELSE IF r.should_relaunch THEN @ + 1 ELSE @]
       /\ writes' = process_event_writes(r)
       /\ UNCHANGED << args, pod_event_callbacks, mark_count >>

\* ------------------------------------------------------------------------
\* Operations of the Node Manager
\* ------------------------------------------------------------------------

\* add_pod_event_callback
AddPodEventCallback ==
    /\ pod_event_callbacks < MaxListeners
    /\ ~InCall
    /\ pod_event_callbacks' = pod_event_callbacks + 1
    /\ UNCHANGED << args, job_nodes, pending_relaunch_count, monitor, todo,
                    exist_pods, call, fired, killed_relaunched, mark_count,
                    since_release, writes, as_vars, stop_vars >>

\* A dataset with its name and its size; Python takes an object whose
\* __len__ is 0 for false.
Dataset(name, size) == [name |-> name, size |-> size]

\* self._training_dataset = None
NoDataset == [name |-> "None", size |-> -1]

\* bool(dataset)
truthy(dataset) == dataset # NoDataset /\ dataset.size > 0

\* set_training_dataset(dataset), for a dataset of `datasets`
SetTrainingDataset(datasets) ==
    /\ ~InCall
    /\ \E dataset \in datasets :
          training_dataset' =
              IF ~truthy(training_dataset) THEN dataset
              ELSE training_dataset
    /\ UNCHANGED << args, job_nodes, pod_event_callbacks,
                    pending_relaunch_count, monitor, todo, exist_pods, call,
                    fired, killed_relaunched, mark_count, since_release,
                    stop_process_event, uncaught, stream, lock, callers,
                    writes, as_vars >>

TypeRank(t) == IF t = PS THEN 0 ELSE 1

NodeLess(a, b) ==
    \/ TypeRank(a[1]) < TypeRank(b[1])
    \/ (a[1] = b[1] /\ a[2] < b[2])

First(S) == CHOOSE n \in S : \A m \in S \ {n} : NodeLess(n, m)

\* _monitor_nodes: nodes = self._node_watcher.list(), pods among `targets`
ListNodes(targets) ==
    /\ monitor = "list"
    /\ \E listed \in SUBSET (targets \cap DOMAIN job_nodes) :
          /\ todo' = listed
          /\ exist_pods' = {}
    /\ monitor' = "list_events"
    /\ UNCHANGED << args, job_nodes, pod_event_callbacks,
                    pending_relaunch_count, call, fired, killed_relaunched,
                    mark_count, since_release, writes, as_vars, stop_vars >>

\* _process_list_nodes, first loop: one listed node replayed as a mock event
ListEvent(snapshots) ==
    /\ monitor = "list_events"
    /\ todo # {}
    /\ First(todo) \in DOMAIN job_nodes
    /\ LET n == First(todo)
       IN /\ \E snapshot \in snapshots :
                ProcessEvent(
                    NodeEvent(n,
                              IF snapshot.status = DELETED THEN EVENT_DELETED
                              ELSE MODIFIED,
                              snapshot),
                    "list_called")
          /\ todo' = todo \ {n}
          /\ exist_pods' = exist_pods \cup {n}
    /\ UNCHANGED << as_vars, stop_vars >>

\* Variant: a node already released is marked again.
release_missing_again(node, listed) ==
    /\ node.status # INITIAL
    /\ ~listed

\* The released mark of one node after the list was replayed.
release_missing(node, listed) ==
    /\ node.status # INITIAL
    /\ ~node.is_released
    /\ ~listed

\* _process_list_nodes, second loop: nodes deleted without the event
ReleaseMissingNodes ==
    /\ monitor = "list_events"
    /\ todo = {}
    /\ job_nodes' =
          [n \in DOMAIN job_nodes |->
              IF release_missing(job_nodes[n], n \in exist_pods)
              THEN [job_nodes[n] EXCEPT !.is_released = TRUE]
              ELSE job_nodes[n]]
    /\ mark_count' =
          [n \in DOMAIN job_nodes |->
              IF release_missing(job_nodes[n], n \in exist_pods)
              THEN mark_count[n] + 1 ELSE mark_count[n]]
    /\ since_release' =
          [n \in DOMAIN job_nodes |->
              IF /\ release_missing(job_nodes[n], n \in exist_pods)
                 /\ job_nodes[n].status = RUNNING
              THEN 0 ELSE since_release[n]]
    /\ writes' =
          IF \E n \in DOMAIN job_nodes :
                 release_missing(job_nodes[n], n \in exist_pods)
          THEN {Write("is_released", FALSE)} ELSE {}
    /\ monitor' = "watch"
    /\ UNCHANGED << args, pod_event_callbacks, pending_relaunch_count, todo,
                    exist_pods, call, fired, killed_relaunched, as_vars,
                    stop_vars >>

\* _monitor_nodes: one event of self._node_watcher.watch()
WatchEvent(targets, types, snapshots) ==
    /\ monitor = "watch"
    /\ \E n \in targets \cap DOMAIN job_nodes : \E type \in types :
       \E snapshot \in snapshots :
          ProcessEvent(NodeEvent(n, type, snapshot), "watch_called")
    /\ UNCHANGED << todo, exist_pods, as_vars, stop_vars >>

\* Variant: the for loop takes the event the watcher yielded last.
next_event_last(events) == Len(events)

\* `for event in self._node_watcher.watch()`: the position in the pending
\* events of the one the loop takes next; a generator yields in order.
next_event(events) == 1

RemoveAt(events, i) ==
    [j \in 1 .. (Len(events) - 1) |->
        IF j < i THEN events[j] ELSE events[j + 1]]

\* The watcher receives one more event for the running watch(); it will
\* yield it after those it already holds.
WatcherReceives(targets, types, snapshots) ==
    /\ monitor \in {"watch", "watch_called"}
    /\ Len(stream) < MaxStream
    /\ \E n \in targets \cap DOMAIN job_nodes : \E type \in types :
       \E snapshot \in snapshots :
          stream' = Append(stream, NodeEvent(n, type, snapshot))
    /\ UNCHANGED << args, job_nodes, pod_event_callbacks,
                    pending_relaunch_count, monitor, todo, exist_pods, call,
                    fired, killed_relaunched, mark_count, since_release,
                    writes, as_vars, stop_process_event, uncaught,
                    training_dataset, lock, callers >>

\* _monitor_nodes: the for loop takes the next event of watch()
WatchNext ==
    /\ monitor = "watch"
    /\ stream # << >>
    /\ stream[next_event(stream)].node \in DOMAIN job_nodes
    /\ ProcessEvent(stream[next_event(stream)], "watch_called")
    /\ stream' = RemoveAt(stream, next_event(stream))
    /\ UNCHANGED << todo, exist_pods, as_vars, stop_process_event, uncaught,
                    training_dataset, lock, callers >>

\* Variant: the relaunched pod is a new node with the next id.
relaunch_typed_pod_new_id(nodes, n) ==
    [m \in DOMAIN nodes \cup {<< n[1], n[2] + 1 >>} |->
        IF m \in DOMAIN nodes THEN nodes[m] ELSE nodes[n]]

\* _relaunch_typed_pod(node): the job's nodes afterwards; the method logs
\* the relaunch and the node keeps its type and id.
relaunch_typed_pod(nodes, n) == nodes

\* _process_event returns: from the locked section, or after the log line
\* and, when a relaunch was decided, _relaunch_typed_pod(cur_node)
ProcessEventReturns ==
    /\ InCall
    /\ monitor' = IF monitor = "list_called" THEN "list_events" ELSE "watch"
    /\ job_nodes' = IF call.should_relaunch
                    THEN relaunch_typed_pod(job_nodes, call.node)
                    ELSE job_nodes
    /\ call' = NoCall
    /\ fired' = [l \in Listeners |-> "none"]
    /\ writes' = {}
    /\ UNCHANGED << args, pod_event_callbacks,
                    pending_relaunch_count, todo, exist_pods,
                    killed_relaunched, mark_count, since_release, as_vars,
                    stop_vars >>

\* _monitor_nodes: the watch stream ends; the loop lists again
WatchEnds ==
    /\ monitor = "watch"
    /\ stream = << >>
    /\ monitor' = "list"
    /\ writes' = {}
    /\ UNCHANGED << args, job_nodes, pod_event_callbacks,
                    pending_relaunch_count, todo, exist_pods, call, fired,
                    killed_relaunched, mark_count, since_release, as_vars,
                    stop_vars >>

\* Something outside the monitor sets _stop_process_event.
StopProcessEvent ==
    /\ ~stop_process_event
    /\ stop_process_event' = TRUE
    /\ UNCHANGED << args, job_nodes, pod_event_callbacks,
                    pending_relaunch_count, monitor, todo, exist_pods, call,
                    fired, killed_relaunched, mark_count, since_release,
                    uncaught, training_dataset, stream, lock, callers,
                    writes, as_vars >>

\* _monitor_nodes: self._node_watcher.list() raises. The call stands before
\* the try statement, so the exception leaves _monitor_nodes and the thread
\* ends.
ListRaises ==
    /\ monitor = "list"
    /\ monitor' = "dead"
    /\ uncaught' = "list"
    /\ UNCHANGED << args, job_nodes, pod_event_callbacks,
                    pending_relaunch_count, todo, exist_pods, call, fired,
                    killed_relaunched, mark_count, since_release,
                    stop_process_event, training_dataset, stream, lock,
                    callers, writes, as_vars >>

\* _monitor_nodes: list() returns pods among `targets`, whether or not the
\* job knows them
ListStrayNodes(targets) ==
    /\ monitor = "list"
    /\ \E listed \in SUBSET targets :
          /\ todo' = listed
          /\ exist_pods' = {}
    /\ monitor' = "list_events"
    /\ UNCHANGED << args, job_nodes, pod_event_callbacks,
                    pending_relaunch_count, call, fired, killed_relaunched,
                    mark_count, since_release, writes, as_vars, stop_vars >>

\* _process_list_nodes, first loop, for a listed node that job_nodes does
\* not hold: its id is collected, then self._job_nodes[node_type][node_id]
\* in _process_event raises KeyError, which nothing catches on this path.
ListStrayEvent ==
    /\ monitor = "list_events"
    /\ todo # {}
    /\ First(todo) \notin DOMAIN job_nodes
    /\ exist_pods' = exist_pods \cup {First(todo)}
    /\ monitor' = "dead"
    /\ uncaught' = "KeyError"
    /\ UNCHANGED << args, job_nodes, pod_event_callbacks,
                    pending_relaunch_count, todo, call, fired,
                    killed_relaunched, mark_count, since_release,
                    stop_process_event, training_dataset, stream, lock,
                    callers, writes, as_vars >>

\* _monitor_nodes: a watch event for a node that job_nodes does not hold;
\* the KeyError of _process_event is caught and logged inside the loop.
WatchStrayEvent(targets) ==
    /\ monitor = "watch"
    /\ targets \ DOMAIN job_nodes # {}
    /\ monitor' = "watch_dropped"
    /\ writes' = {}
    /\ UNCHANGED << args, job_nodes, pod_event_callbacks,
                    pending_relaunch_count, todo, exist_pods, call, fired,
                    killed_relaunched, mark_count, since_release, as_vars,
                    stop_vars >>

\* _monitor_nodes: after logger.warning(e) the loop takes the next event
EventDropped ==
    /\ monitor = "watch_dropped"
    /\ monitor' = "watch"
    /\ UNCHANGED << args, job_nodes, pod_event_callbacks,
                    pending_relaunch_count, todo, exist_pods, call, fired,
                    killed_relaunched, mark_count, since_release, writes,
                    as_vars, stop_vars >>

\* _monitor_nodes: the watch stream raises; the outer handler logs and
\* sleeps 30 seconds
WatchRaises ==
    /\ monitor = "watch"
    /\ monitor' = "backoff"
    /\ writes' = {}
    /\ stream' = << >>
    /\ UNCHANGED << args, job_nodes, pod_event_callbacks,
                    pending_relaunch_count, todo, exist_pods, call, fired,
                    killed_relaunched, mark_count, since_release, as_vars,
                    stop_process_event, uncaught, training_dataset, lock,
                    callers >>

\* _monitor_nodes: the sleep is over; the loop lists again
BackoffEnds ==
    /\ monitor = "backoff"
    /\ monitor' = "list"
    /\ UNCHANGED << args, job_nodes, pod_event_callbacks,
                    pending_relaunch_count, todo, exist_pods, call, fired,
                    killed_relaunched, mark_count, since_release, writes,
                    as_vars, stop_vars >>

\* ------------------------------------------------------------------------
\* _process_event line by line, called by several threads
\* ------------------------------------------------------------------------

\* What the steps of the callers leave alone.
caller_frame == << args, pod_event_callbacks, monitor, todo, exist_pods, call,
                  killed_relaunched, mark_count, since_release, writes,
                  stop_process_event, uncaught, training_dataset, stream,
                  as_vars >>

\* Variant: the lock excludes nobody.
lock_free_always(holder) == TRUE

\* `with self._lock`, entry: acquire() returns once no thread holds the lock.
lock_free(holder) == holder = NoThread

\* Variant: an exception leaves the lock held.
with_exit_normal_only(holder, raised) == IF raised THEN holder ELSE NoThread

\* `with self._lock`, exit: the holder of the lock afterwards, whether the
\* block ended normally or by an exception.
with_exit(holder, raised) == NoThread

\* A callback of a subscribed listener, or the decision, may raise.
Raises(possible) == IF possible THEN BOOLEAN ELSE {FALSE}

\* An exception leaves the locked block of the thread and propagates.
Raised(t) == [callers EXCEPT ![t] = [IdleCaller EXCEPT !.pc = "raised"]]

\* lines 234-246: the thread looks the node up and enters the locked block
AcquireLock(t, targets, types, snapshots) ==
    /\ callers[t].pc = "idle"
    /\ lock_free(lock)
    /\ \E n \in targets \cap DOMAIN job_nodes : \E type \in types :
       \E snapshot \in snapshots :
          /\ job_nodes[n].relaunch_count < MaxRelaunchSeen
          /\ callers' = [callers EXCEPT ![t] =
                            [IdleCaller EXCEPT
                                !.pc = "held",
                                !.event = NodeEvent(n, type, snapshot),
                                !.before = job_nodes[n]]]
    /\ lock' = t
    /\ UNCHANGED << job_nodes, fired, pending_relaunch_count, caller_frame >>

\* lines 247-250: old_status and the flow
ReadStatus(t) ==
    /\ callers[t].pc = "held"
    /\ LET e == callers[t].event
           old_status == job_nodes[e.node].status
       IN callers' = [callers EXCEPT ![t] =
                         [@ EXCEPT
                             !.pc = "read",
                             !.old_status = old_status,
                             !.flow = get_node_state_flow(
                                          old_status, e.event_type, e.status)]]
    /\ UNCHANGED << job_nodes, fired, pending_relaunch_count, lock,
                    caller_frame >>

\* lines 251-258: update_status, and the early return out of the block
UpdateStatus(t) ==
    /\ callers[t].pc = "read"
    /\ LET e == callers[t].event
       IN /\ job_nodes' = [job_nodes EXCEPT
                              ![e.node] = update_status(@, e.status)]
          /\ IF returns_early(callers[t].flow)
             THEN /\ callers' = [callers EXCEPT ![t].pc = "outside"]
                  /\ lock' = with_exit(lock, FALSE)
             ELSE /\ callers' = [callers EXCEPT ![t].pc = "updated"]
                  /\ lock' = lock
    /\ UNCHANGED << fired, pending_relaunch_count, caller_frame >>

\* lines 261-263: set_exit_reason and the callbacks of the listeners
NotifyListeners(t) ==
    /\ callers[t].pc = "updated"
    /\ LET e == callers[t].event
       IN /\ job_nodes' = [job_nodes EXCEPT
                              ![e.node].exit_reason = e.exit_reason]
          /\ fired' = [l \in Listeners |->
                          IF l <= pod_event_callbacks
                          THEN process_node_events(callers[t].flow)
                          ELSE "none"]
    /\ \E raised \in Raises(pod_event_callbacks > 0) :
          /\ callers' = IF raised THEN Raised(t)
                        ELSE [callers EXCEPT ![t].pc = "notified"]
          /\ lock' = IF raised THEN with_exit(lock, TRUE) ELSE lock
    /\ UNCHANGED << pending_relaunch_count, caller_frame >>

\* lines 265-267: _should_relaunch, with its inc_relaunch_count
DecideRelaunch(t) ==
    /\ callers[t].pc = "notified"
    /\ LET e == callers[t].event
           dec == should_relaunch(job_nodes[e.node], callers[t].flow)
       IN \E raised \in Raises(TRUE) :
             IF raised
             THEN /\ callers' = Raised(t)
                  /\ lock' = with_exit(lock, TRUE)
                  /\ job_nodes' = job_nodes
             ELSE /\ callers' = [callers EXCEPT ![t] =
                                    [@ EXCEPT
                                        !.pc = "decided",
                                        !.should_relaunch =
                                            dec.should_relaunch]]
                  /\ lock' = lock
                  /\ job_nodes' = [job_nodes EXCEPT ![e.node] = dec.node]
    /\ UNCHANGED << fired, pending_relaunch_count, caller_frame >>

\* lines 268-269 and the end of the locked block
ReleaseLock(t) ==
    /\ callers[t].pc = "decided"
    /\ pending_relaunch_count' =
          IF callers[t].should_relaunch /\ wait_pending_relaunch(args)
          THEN pending_relaunch_count + 1
          ELSE pending_relaunch_count
    /\ callers' = [callers EXCEPT ![t].pc = "outside"]
    /\ lock' = with_exit(lock, FALSE)
    /\ UNCHANGED << job_nodes, fired, caller_frame >>

\* lines 271-281: the log line and, when decided, _relaunch_typed_pod
CallerReturns(t) ==
    /\ callers[t].pc = "outside"
    /\ job_nodes' = IF callers[t].should_relaunch
                    THEN relaunch_typed_pod(job_nodes, callers[t].event.node)
                    ELSE job_nodes
    /\ callers' = [callers EXCEPT ![t] = IdleCaller]
    /\ fired' = [l \in Listeners |-> "none"]
    /\ UNCHANGED << pending_relaunch_count, lock, caller_frame >>

\* The caller of _process_event handles the exception (the monitor logs it
\* at lines 198-199).
ExceptionHandled(t) ==
    /\ callers[t].pc = "raised"
    /\ callers' = [callers EXCEPT ![t] = IdleCaller]
    /\ fired' = [l \in Listeners |-> "none"]
    /\ UNCHANGED << job_nodes, pending_relaunch_count, lock, caller_frame >>

\* ------------------------------------------------------------------------
\* Resource plans and scale plans
\* ------------------------------------------------------------------------

CHIEF == "chief"
EVALUATOR == "evaluator"

GroupTypes == {PS, WORKER, CHIEF, EVALUATOR}

\* Time is counted in units of the scaler's scale_interval (30 s for the PS
\* variant, 1800 s for the AllReduce variant).
scale_interval == 1

\* Context.seconds_interval_to_optimize, in the same unit.
seconds_interval_to_optimize == 2

\* Elapsed times are kept up to the first value beyond the interval.
Saturated == seconds_interval_to_optimize + 1

ResourcePlan(groups, resources) ==
    [is_none |-> FALSE, node_group_resources |-> groups,
     node_resources |-> resources]

\* The optimizer has no plan.
None ==
    [is_none |-> TRUE, node_group_resources |-> [t \in {} |-> 0],
     node_resources |-> {}]

\* ResourcePlan.empty(): both maps are empty
resource_plan_empty(plan) ==
    /\ DOMAIN plan.node_group_resources = {}
    /\ plan.node_resources = {}

\* A pod name as its "-"-separated segments, e.g. job-ps-0.
PodName(type, id) == << "job", type, id >>

\* name.split("-")[-2]
name_type(name) == name[Len(name) - 1]

EmptyScalePlan == [launch_nodes |-> {}, remove_nodes |-> {}, ps_addrs |-> << >>]

\* A scale plan that launches the node `n`.
LaunchPlan(n) == [EmptyScalePlan EXCEPT !.launch_nodes = {n}]

Range(q) == {q[i] : i \in DOMAIN q}

\* list.extend
extend(q, more) == q \o more

\* ScalePlan.empty(): nothing to launch and nothing to remove
scale_plan_empty(plan) ==
    /\ plan.launch_nodes = {}
    /\ plan.remove_nodes = {}

\* ScalePlan.merge(other): concatenate and dedupe
merge(plan, other) ==
    [launch_nodes |-> plan.launch_nodes \cup other.launch_nodes,
     remove_nodes |-> plan.remove_nodes \cup other.remove_nodes,
     ps_addrs |-> plan.ps_addrs \o
                  SelectSeq(other.ps_addrs,
                            LAMBDA a : a \notin Range(plan.ps_addrs))]

\* What the PS manager and the worker manager answer during one step: the
\* scale plan of each operation and the current PS addresses.
ManagerOps ==
    {"adjust_ps", "adjust_worker", "migrate_parameter_servers",
     "migrate_workers", "ps_reduce_pending", "worker_reduce_pending"}

\* The plan of a PS migration: the replacement to launch and the address
\* handover.
HandoverPlan(n, addrs) ==
    [EmptyScalePlan EXCEPT !.launch_nodes = {n}, !.ps_addrs = addrs]

\* The answers to the operations `ops`: each has something to launch or
\* nothing to do, and a PS migration may hand over the PS addresses; and
\* the number of chief nodes that get_job_nodes(NodeType.CHIEF) returns.
Answers(ops) ==
    {[plans |-> [op \in ManagerOps |->
                    IF op \notin busy THEN EmptyScalePlan
                    ELSE IF op = "migrate_parameter_servers" /\ handover
                    THEN HandoverPlan(op, addrs)
                    ELSE LaunchPlan(op)],
      ps_addrs |-> addrs,
      chief_num |-> chiefs] :
        busy \in SUBSET ops,
        handover \in IF "migrate_parameter_servers" \in ops
                     THEN BOOLEAN ELSE {FALSE},
        addrs \in {<< "ps-0:2222" >>},
        chiefs \in IF "adjust_worker" \in ops THEN {0, 1} ELSE {0}}

\* ------------------------------------------------------------------------
\* Operations of the Job Auto-Scaler
\* ------------------------------------------------------------------------

auto_ps_enabled == context.auto_ps_enabled

auto_worker_enabled == context.auto_worker_enabled

\* What a step of the auto-scaler did, for the properties.
NoEffect ==
    [op |-> "none", was_started |-> FALSE, set_target |-> FALSE,
     spawned |-> FALSE, finished |-> FALSE, elapsed |-> FALSE,
     migrating |-> FALSE, requested |-> FALSE, gap |-> -1,
     executed |-> FALSE, plan |-> None, calls |-> {},
     perf_reset |-> FALSE, scaled |-> FALSE,
     scale_plan |-> EmptyScalePlan, ps_addrs |-> << >>,
     scale_failed |-> FALSE, returned |-> FALSE,
     chief_num |-> 0, adjusted |-> [t \in {} |-> 0]]

\* An optimization loop thread: where it is, how long it still sleeps, and
\* the time since last_plan_time (which starts at 0, long ago).
FreeLoop == [pc |-> "free", sleep_left |-> 0, since_plan |-> Saturated]

LoopIds == 1 .. MaxLoops

Alive == {l \in LoopIds : loops[l].pc # "free"}

\* Variant: the early return hands the empty ScalePlan to the Scaler.
NoExecution_scaled(resource, target) ==
    [job_resource |-> resource, perf_target |-> target, calls |-> {},
     perf_reset |-> FALSE, scaled |-> TRUE, scale_plan |-> EmptyScalePlan,
     ps_addrs |-> << >>, adjusted |-> [t \in {} |-> 0]]

\* The result of execute_job_optimization_plan when nothing is done.
NoExecution(resource, target) ==
    [job_resource |-> resource, perf_target |-> target, calls |-> {},
     perf_reset |-> FALSE, scaled |-> FALSE, scale_plan |-> EmptyScalePlan,
     ps_addrs |-> << >>, adjusted |-> [t \in {} |-> 0]]

\* The groups of a plan that execute_job_optimization_plan handles.
positive_groups(plan) ==
    {t \in DOMAIN plan.node_group_resources :
        plan.node_group_resources[t] > 0}

\* _migrate_nodes: the names of plan.node_resources with the type tag `type`
names_of_type(plan, type) ==
    {n \in plan.node_resources : name_type(n) = type}

\* Variant: the manager is given the group as it was before the update.
adjusted_group_stale(resource, updated, t) == resource[t]

\* The group handed to adjust_ps or adjust_worker: the one re-read with
\* get_node_group_resource after update_node_group_resource.
adjusted_group(resource, updated, t) == updated[t]

\* The manager operations one execute_job_optimization_plan call makes.
manager_calls(kind, plan) ==
    IF plan = None \/ resource_plan_empty(plan) THEN {}
    ELSE IF kind = PARAMETER_SERVER
    THEN (IF PS \in positive_groups(plan) THEN {"adjust_ps"} ELSE {})
         \cup (IF WORKER \in positive_groups(plan)
               THEN {"adjust_worker"} ELSE {})
         \cup (IF names_of_type(plan, PS) # {}
               THEN {"migrate_parameter_servers"} ELSE {})
         \cup (IF names_of_type(plan, WORKER) # {}
               THEN {"migrate_workers"} ELSE {})
    ELSE IF WORKER \in positive_groups(plan) THEN {"adjust_worker"} ELSE {}

\* PSTrainingAutoScaler.execute_job_optimization_plan
ps_execute_job_optimization_plan(plan, answers, resource, target) ==
    IF plan = None \/ resource_plan_empty(plan)
    THEN NoExecution(resource, target)
    ELSE LET groups == positive_groups(plan)
             updated == [t \in DOMAIN resource |->
                            IF t \in groups
                            THEN plan.node_group_resources[t]
                            ELSE resource[t]]
             ps_names == names_of_type(plan, PS)
             called == manager_calls(PARAMETER_SERVER, plan)
             Sub(op) == IF op \in called THEN answers.plans[op]
                        ELSE EmptyScalePlan
             grouped == merge(merge(EmptyScalePlan, Sub("adjust_ps")),
                              Sub("adjust_worker"))
             migration ==
                 merge(merge(EmptyScalePlan,
                             Sub("migrate_parameter_servers")),
                       Sub("migrate_workers"))
             merged == IF plan.node_resources # {}
                       THEN merge(grouped, migration) ELSE grouped
             final == [merged EXCEPT
                          !.ps_addrs = extend(@, answers.ps_addrs)]
         IN [job_resource |-> updated,
             perf_target |->
                 IF WORKER \in groups
                 THEN answers.chief_num + updated[WORKER] ELSE target,
             calls |-> called,
             perf_reset |-> PS \in groups \/ ps_names # {},
             scaled |-> TRUE,
             scale_plan |-> final,
             ps_addrs |-> answers.ps_addrs,
             adjusted |-> [t \in groups \cap {PS, WORKER} |->
                              adjusted_group(resource, updated, t)]]

\* AllreduceTrainingAutoScaler.execute_job_optimization_plan
allreduce_execute_job_optimization_plan(plan, answers, resource, target) ==
    IF plan = None \/ resource_plan_empty(plan)
    THEN NoExecution(resource, target)
    ELSE LET adjusted == WORKER \in positive_groups(plan)
             updated == IF adjusted
                        THEN [resource EXCEPT
                                 ![WORKER] =
                                     plan.node_group_resources[WORKER]]
                        ELSE resource
         IN [job_resource |-> updated,
             perf_target |-> IF adjusted
                             THEN updated[WORKER] ELSE target,
             calls |-> manager_calls(ALLREDUCE, plan),
             perf_reset |-> FALSE,
             scaled |-> TRUE,
             scale_plan |->
                 IF adjusted
                 THEN merge(EmptyScalePlan, answers.plans["adjust_worker"])
                 ELSE EmptyScalePlan,
             ps_addrs |-> << >>,
             adjusted |-> [t \in (IF adjusted THEN {WORKER} ELSE {}) |->
                              adjusted_group(resource, updated, t)]]

execute_job_optimization_plan(kind, plan, answers, resource, target) ==
    IF kind = PARAMETER_SERVER
    THEN ps_execute_job_optimization_plan(plan, answers, resource, target)
    ELSE allreduce_execute_job_optimization_plan(plan, answers, resource,
                                                 target)

\* PSTrainingAutoScaler._reduce_timeout_pending_node_resource
reduce_timeout_pending_node_resource(answers) ==
    LET merged == merge(merge(EmptyScalePlan,
                              answers.plans["ps_reduce_pending"]),
                        answers.plans["worker_reduce_pending"])
    IN IF ~scale_plan_empty(merged)
       THEN [merged EXCEPT !.ps_addrs = extend(@, answers.ps_addrs)]
       ELSE merged

\* Variant: no check of _autoscaling_started.
start_auto_scaling_unguarded(kind, started, ctx) ==
    IF kind = PARAMETER_SERVER
    THEN IF ~ctx.auto_ps_enabled /\ ~ctx.auto_worker_enabled
         THEN [started |-> TRUE, set_target |-> FALSE, spawn |-> FALSE]
         ELSE [started |-> TRUE, set_target |-> ctx.perf_monitor,
               spawn |-> ctx.perf_monitor]
    ELSE [started |-> TRUE, set_target |-> FALSE,
          spawn |-> ctx.auto_worker_enabled]

\* start_auto_scaling of both variants: the new flag, whether the perf
\* monitor's target is set and whether a loop thread is spawned.
start_auto_scaling(kind, started, ctx) ==
    IF started
    THEN [started |-> started, set_target |-> FALSE, spawn |-> FALSE]
    ELSE IF kind = PARAMETER_SERVER
    THEN IF ~ctx.auto_ps_enabled /\ ~ctx.auto_worker_enabled
         THEN [started |-> TRUE, set_target |-> FALSE, spawn |-> FALSE]
         ELSE [started |-> TRUE, set_target |-> ctx.perf_monitor,
               spawn |-> ctx.perf_monitor]
    ELSE [started |-> TRUE, set_target |-> FALSE,
          spawn |-> ctx.auto_worker_enabled]

\* self._scaler.scale(scale_plan) may raise; it is the last statement before
\* `return scale_plan`.
ScaleFails(scaled) == IF scaled THEN BOOLEAN ELSE {FALSE}

\* start_auto_scaling
StartAutoScaling ==
    /\ LET r == start_auto_scaling(scaler_kind, autoscaling_started,
                                   context)
           free == LoopIds \ Alive
       IN /\ r.spawn => free # {}
          /\ autoscaling_started' = r.started
          /\ perf_target' =
                 IF r.set_target
                 THEN job_resource[WORKER] + job_resource[CHIEF]
                 ELSE perf_target
          /\ loops' =
                 IF r.spawn
                 THEN [loops EXCEPT
                          ![CHOOSE l \in free : \A m \in free : l <= m] =
                              [FreeLoop EXCEPT !.pc = "check"]]
                 ELSE loops
          /\ effect' = [NoEffect EXCEPT
                           !.op = "start",
                           !.was_started = autoscaling_started,
                           !.set_target = r.set_target,
                           !.spawned = r.spawn]
    /\ UNCHANGED << nm_vars, suggested_stop, scaler_kind, context,
                    job_resource, reducer, since_request >>

\* stop_auto_scaling
StopAutoScaling ==
    /\ autoscaling_started' = FALSE
    /\ effect' = [NoEffect EXCEPT !.op = "stop"]
    /\ UNCHANGED << nm_vars, suggested_stop, scaler_kind, context,
                    perf_target, job_resource, loops, reducer,
                    since_request >>

\* One unit of time passes: sleeps get shorter, elapsed times longer.
Tick ==
    /\ loops' =
          [l \in LoopIds |->
              IF loops[l].pc = "free" THEN loops[l]
              ELSE [loops[l] EXCEPT
                       !.sleep_left = IF @ > 0 THEN @ - 1 ELSE 0,
                       !.since_plan = Min(@ + 1, Saturated)]]
    /\ reducer' = [reducer EXCEPT !.sleep_left = IF @ > 0 THEN @ - 1 ELSE 0]
    /\ since_request' =
          IF since_request = -1 THEN -1
          ELSE Min(since_request + 1, Saturated)
    /\ effect' = NoEffect
    /\ UNCHANGED << nm_vars, suggested_stop, autoscaling_started,
                    scaler_kind, context, perf_target, job_resource >>

\* Variant: the loop does not look at _autoscaling_started.
loop_exits_never(started) == FALSE

\* The test at the top of both optimization loops: break when
\* _autoscaling_started is false
loop_exits(started) == ~started

\* Variant: a running migration does not hold the plan request back.
should_request_plan_while_migrating(finished, elapsed, migrating) ==
    finished /\ elapsed

\* _periodic_optimize_running_resource: the condition of a plan request
should_request_plan(finished, elapsed, migrating) ==
    finished /\ elapsed /\ ~migrating

\* _periodic_optimize_running_resource: one iteration of the loop thread
\* `l`, up to its sleep, with a plan of `plans` from the optimizer
OptimizeCycle(plans) ==
    /\ scaler_kind = PARAMETER_SERVER
    /\ \E l \in Alive :
          /\ loops[l].pc = "check"
          /\ loops[l].sleep_left = 0
          /\ IF loop_exits(autoscaling_started)
             THEN /\ loops' = [loops EXCEPT ![l] = FreeLoop]
                  /\ effect' = [NoEffect EXCEPT !.op = "exit"]
                  /\ UNCHANGED << perf_target, job_resource,
                                  since_request >>
             ELSE \E finished \in BOOLEAN, migrating \in BOOLEAN :
                  LET elapsed == loops[l].since_plan >
                                     seconds_interval_to_optimize
                      request ==
                          should_request_plan(finished, elapsed, migrating)
                  IN \E plan \in IF request THEN plans ELSE {None} :
                     \E answers \in
                            Answers(manager_calls(scaler_kind, plan)) :
                     LET done ==
                             IF request
                             THEN execute_job_optimization_plan(
                                      scaler_kind, plan, answers,
                                      job_resource, perf_target)
                             ELSE NoExecution(job_resource, perf_target)
                     IN \E fails \in ScaleFails(done.scaled) :
                        /\ loops' =
                               [loops EXCEPT
                                   ![l].sleep_left = scale_interval,
                                   ![l].since_plan =
                                       IF request /\ plan # None
                                       THEN 0 ELSE @]
                        /\ since_request' =
                               IF request THEN 0 ELSE since_request
                        /\ job_resource' = done.job_resource
                        /\ perf_target' = done.perf_target
                        /\ effect' =
                               [NoEffect EXCEPT
                                   !.op = "cycle",
                                   !.finished = finished,
                                   !.elapsed = elapsed,
                                   !.migrating = migrating,
                                   !.requested = request,
                                   !.gap = IF request THEN since_request
                                           ELSE -1,
                                   !.executed = request,
                                   !.plan = plan,
                                   !.calls = done.calls,
                                   !.perf_reset = done.perf_reset,
                                   !.scaled = done.scaled,
                                   !.scale_plan = done.scale_plan,
                                   !.adjusted = done.adjusted,
                                   !.chief_num = answers.chief_num,
                                   !.ps_addrs = done.ps_addrs,
                                   !.scale_failed = fails,
                                   !.returned = request /\ ~fails]
    /\ UNCHANGED << nm_vars, suggested_stop, autoscaling_started,
                    scaler_kind, context, reducer >>

\* AllreduceTrainingAutoScaler._get_alive_worker_num
get_alive_worker_num ==
    Cardinality({n \in DOMAIN job_nodes :
                    /\ n[1] = WORKER
                    /\ job_nodes[n].status \in
                           {RUNNING, PENDING, INITIAL, SUCCEEDED}})

\* Variant: no plan is skipped.
worker_plan_skipped_never(new_worker_num, alive_num) == FALSE

\* _periodic_adjust_worker: `if new_worker_num <= alive_num: continue`
worker_plan_skipped(new_worker_num, alive_num) == new_worker_num <= alive_num

\* _periodic_adjust_worker: the loop thread checks the flag, then sleeps
AdjustWorkerCheck ==
    /\ scaler_kind = ALLREDUCE
    /\ \E l \in Alive :
          /\ loops[l].pc = "check"
          /\ loops' =
                IF loop_exits(autoscaling_started)
                THEN [loops EXCEPT ![l] = FreeLoop]
                ELSE [loops EXCEPT ![l].pc = "sleep",
                                   ![l].sleep_left = scale_interval]
          /\ effect' = [NoEffect EXCEPT
                           !.op = IF loop_exits(autoscaling_started)
                                  THEN "exit" ELSE "sleep"]
    /\ UNCHANGED << nm_vars, suggested_stop, autoscaling_started,
                    scaler_kind, context, perf_target, job_resource,
                    reducer, since_request >>

\* _periodic_adjust_worker: after the sleep, the rest of the iteration with
\* a plan of `plans` from the optimizer; a plan that is None or has no
\* WORKER group raises, which the loop logs
AdjustWorkerCycle(plans) ==
    /\ scaler_kind = ALLREDUCE
    /\ \E l \in Alive : \E plan \in plans :
       \E answers \in Answers(manager_calls(scaler_kind, plan)) :
          /\ loops[l].pc = "sleep"
          /\ loops[l].sleep_left = 0
          /\ LET raised == \/ plan = None
                           \/ WORKER \notin DOMAIN plan.node_group_resources
                 skipped == \/ raised
                            \/ worker_plan_skipped(
                                   plan.node_group_resources[WORKER],
                                   get_alive_worker_num)
                 done == IF skipped
                         THEN NoExecution(job_resource, perf_target)
                         ELSE execute_job_optimization_plan(
                                  scaler_kind, plan, answers, job_resource,
                                  perf_target)
             IN \E fails \in ScaleFails(done.scaled) :
                /\ loops' = [loops EXCEPT ![l].pc = "check"]
                /\ job_resource' = done.job_resource
                /\ perf_target' = done.perf_target
                /\ effect' = [NoEffect EXCEPT
                                 !.op = "cycle",
                                 !.requested = TRUE,
                                 !.executed = ~skipped,
                                 !.plan = plan,
                                 !.calls = done.calls,
                                 !.scaled = done.scaled,
                                 !.scale_plan = done.scale_plan,
                                 !.adjusted = done.adjusted,
                                 !.scale_failed = fails,
                                 !.returned = ~skipped /\ ~fails]
    /\ UNCHANGED << nm_vars, suggested_stop, autoscaling_started,
                    scaler_kind, context, reducer, since_request >>

\* monitor_pending_node_at_begining: one iteration of the reducer thread
ReducePending ==
    /\ reducer.pc = "run"
    /\ reducer.sleep_left = 0
    /\ IF autoscaling_started
       THEN /\ reducer' = [reducer EXCEPT !.pc = "done"]
            /\ effect' = [NoEffect EXCEPT !.op = "reducer_exit"]
       ELSE \E answers \in
                   Answers({"ps_reduce_pending", "worker_reduce_pending"}) :
            /\ reducer' = [reducer EXCEPT !.sleep_left = 2 * scale_interval]
            /\ effect' =
                   [NoEffect EXCEPT
                       !.op = "reduce",
                       !.calls = {"ps_reduce_pending",
                                  "worker_reduce_pending"},
                       !.scaled = TRUE,
                       !.scale_plan =
                           reduce_timeout_pending_node_resource(answers)]
    /\ UNCHANGED << nm_vars, suggested_stop, autoscaling_started,
                    scaler_kind, context, perf_target, job_resource, loops,
                    since_request >>

\* execute_job_optimization_plan called from outside the loops with a plan
\* of `plans` (on a scaler that has a perf monitor)
ExecutePlan(plans) ==
    /\ context.perf_monitor
    /\ \E plan \in plans :
       \E answers \in Answers(manager_calls(scaler_kind, plan)) :
          LET done == execute_job_optimization_plan(
                          scaler_kind, plan, answers, job_resource,
                          perf_target)
          IN \E fails \in ScaleFails(done.scaled) :
             /\ job_resource' = done.job_resource
             /\ perf_target' = done.perf_target
             /\ effect' = [NoEffect EXCEPT
                              !.op = "execute",
                              !.executed = TRUE,
                              !.plan = plan,
                              !.calls = done.calls,
                              !.perf_reset = done.perf_reset,
                              !.scaled = done.scaled,
                              !.scale_plan = done.scale_plan,
                              !.adjusted = done.adjusted,
                              !.chief_num = answers.chief_num,
                              !.ps_addrs = done.ps_addrs,
                              !.scale_failed = fails,
                              !.returned = ~fails]
    /\ UNCHANGED << nm_vars, suggested_stop, autoscaling_started,
                    scaler_kind, context, loops, reducer, since_request >>

\* ------------------------------------------------------------------------
\* Specifications
\* ------------------------------------------------------------------------

BaseArgs ==
    [distribution_strategy |-> PARAMETER_SERVER,
     relaunch_on_worker_failure |-> 1,
     ps_is_critical |-> TRUE,
     ps_relaunch_max_num |-> 1,
     critical_worker_index |-> "default",
     num_workers |-> 1,
     num_ps_pods |-> 1,
     worker_memory |-> MAX_MEMORY + 1,
     ps_memory |-> 4096]

\* A job of one parameter server, its memory request below the ceiling.
PsOnlyArgs == [BaseArgs EXCEPT !.num_workers = 0]

\* A job of one worker, its memory request above the ceiling.
WorkerOnlyArgs == [BaseArgs EXCEPT !.num_ps_pods = 0]

AllNodes == NodesOf(BaseArgs)

\* An auto-scaler: its variant, the switches of the context, and whether it
\* was given a perf monitor.
ScalerConfig(kind, ps_enabled, worker_enabled, perf) ==
    [kind |-> kind,
     context |-> [auto_ps_enabled |-> ps_enabled,
                  auto_worker_enabled |-> worker_enabled,
                  perf_monitor |-> perf]]

\* The PS variant with both switches off: start_auto_scaling only flips
\* _autoscaling_started.
PsSwitchedOff == ScalerConfig(PARAMETER_SERVER, FALSE, FALSE, TRUE)

\* JobAutoScaler.__init__ and the constructors of the variants, for one of
\* `configs`; the PS variant spawns the pending-node reducer.
InitScaler(configs) ==
    /\ \E c \in configs :
          /\ scaler_kind = c.kind
          /\ context = c.context
    /\ perf_target = -1
    /\ job_resource =
          [t \in GroupTypes |->
              CASE t = PS -> args.num_ps_pods
                [] t = WORKER -> args.num_workers
                [] OTHER -> 0]
    /\ loops = [l \in LoopIds |-> FreeLoop]
    /\ reducer = [pc |-> IF scaler_kind = PARAMETER_SERVER THEN "run"
                         ELSE "none",
                  sleep_left |-> 0]
    /\ since_request = -1
    /\ effect = NoEffect

InitAll(argset, configs) ==
    /\ args \in {create_node_manager(a) : a \in argset}
    /\ job_nodes = init_attr_for_typed_pods(args)
    /\ pod_event_callbacks = 0
    /\ pending_relaunch_count = 0
    /\ monitor = "list"
    /\ todo = {}
    /\ exist_pods = {}
    /\ call = NoCall
    /\ suggested_stop = FALSE
    /\ autoscaling_started = FALSE
    /\ fired = [l \in Listeners |-> "none"]
    /\ killed_relaunched = {}
    /\ mark_count = [n \in DOMAIN job_nodes |-> 0]
    /\ since_release = [n \in DOMAIN job_nodes |-> -1]
    /\ stop_process_event = FALSE
    /\ uncaught = "none"
    /\ training_dataset = NoDataset
    /\ stream = << >>
    /\ lock = NoThread
    /\ callers = [t \in Callers |-> IdleCaller]
    /\ writes = {}
    /\ InitScaler(configs)

\* The Node Manager of one of the jobs `argset`, next to an idle auto-scaler.
InitWith(argset) == InitAll(argset, {PsSwitchedOff})

Init == InitWith({PsOnlyArgs, WorkerOnlyArgs})

ListPods == ListNodes(AllNodes)

ListedPod == ListEvent(AllSnapshots)

WatchedPod == WatchEvent(AllNodes, NodeEventType, AllSnapshots)

Next ==
    \/ AddPodEventCallback
    \/ ListPods
    \/ ListedPod
    \/ ReleaseMissingNodes
    \/ WatchedPod
    \/ ProcessEventReturns
    \/ WatchEnds

Spec == Init /\ [][Next]_vars


\* Scenario S1: the arguments of the tests' MockArgs; the events are the
\* MODIFIED events of worker 0 (pending, running, failed because killed).
S1Args ==
    [distribution_strategy |-> PARAMETER_SERVER,
     relaunch_on_worker_failure |-> 1,
     ps_is_critical |-> TRUE,
     ps_relaunch_max_num |-> 1,
     critical_worker_index |-> "0:3",
     num_workers |-> 3,
     num_ps_pods |-> 3,
     worker_memory |-> 4096,
     ps_memory |-> 4096]

Worker0 == <<WORKER, 0>>

S1Snapshots ==
    {Snapshot(PENDING, NoReason), Snapshot(RUNNING, NoReason),
     Snapshot(FAILED, KILLED)}

InitS1 == InitWith({S1Args})

ListPodsS1 == ListNodes({Worker0})

ListedPodS1 == ListEvent(S1Snapshots)

WatchedPodS1 == WatchEvent({Worker0}, {MODIFIED}, S1Snapshots)

NextS1 ==
    \/ AddPodEventCallback
    \/ ListPodsS1
    \/ ListedPodS1
    \/ ReleaseMissingNodes
    \/ WatchedPodS1
    \/ ProcessEventReturns
    \/ WatchEnds

SpecS1 == InitS1 /\ [][NextS1]_vars

\* Bulk lists over a parameter server and a worker that share the id 0;
\* the pods are running or deleted.
ListSnapshots == {Snapshot(RUNNING, NoReason), Snapshot(DELETED, NoReason)}

InitList == InitWith({BaseArgs})

ListedPodList == ListEvent(ListSnapshots)

WatchedPodList ==
    WatchEvent(AllNodes, {MODIFIED, EVENT_DELETED}, ListSnapshots)

NextList ==
    \/ ListPods
    \/ ListedPodList
    \/ ReleaseMissingNodes
    \/ WatchedPodList
    \/ ProcessEventReturns
    \/ WatchEnds

SpecList == InitList /\ [][NextList]_vars

\* The monitor thread over a watcher that holds the events of watch() until
\* the loop takes them and whose watch() can fail: the loop lists again only
\* after a failure.  The pods run or succeed.
OrderSnapshots == {Snapshot(RUNNING, NoReason), Snapshot(SUCCEEDED, NoReason)}

InitOrder == InitWith({BaseArgs})

ListedPodOrder == ListEvent(OrderSnapshots)

WatcherReceivesOrder == WatcherReceives(AllNodes, {MODIFIED}, OrderSnapshots)

NextOrder ==
    \/ ListPods
    \/ ListedPodOrder
    \/ ReleaseMissingNodes
    \/ WatcherReceivesOrder
    \/ WatchNext
    \/ ProcessEventReturns
    \/ WatchRaises
    \/ BackoffEnds

OrderSpec == InitOrder /\ [][NextOrder]_vars

\* The bulk lists and the watch of a parameter server and a worker, in a
\* job of the parameter-server strategy and in one of the custom strategy.
CustomArgs == [BaseArgs EXCEPT !.distribution_strategy = CUSTOM]

InitPending == InitWith({BaseArgs, CustomArgs})

PendingSpec == InitPending /\ [][NextList]_vars

\* Threads that call _process_event side by side for the one worker of a
\* job, with or without a listener: the worker runs, fails or is deleted.
LockSnapshots ==
    {Snapshot(RUNNING, NoReason), Snapshot(FAILED, UNKNOWN_ERROR),
     Snapshot(DELETED, NoReason)}

InitLock == InitWith({WorkerOnlyArgs})

NextLock ==
    \/ AddPodEventCallback
    \/ \E t \in Callers :
          AcquireLock(t, AllNodes, {MODIFIED, EVENT_DELETED}, LockSnapshots)
    \/ \E t \in Callers : ReadStatus(t)
    \/ \E t \in Callers : UpdateStatus(t)
    \/ \E t \in Callers : NotifyListeners(t)
    \/ \E t \in Callers : DecideRelaunch(t)
    \/ \E t \in Callers : ReleaseLock(t)
    \/ \E t \in Callers : CallerReturns(t)
    \/ \E t \in Callers : ExceptionHandled(t)

LockSpec == InitLock /\ [][NextLock]_vars

\* The monitor thread and the auto-scaler's switches, with the monitor
\* thread and the callers of the auto-scaler scheduled fairly; the events
\* are those of a critical worker that runs, fails and is deleted.
StopSnapshots ==
    {Snapshot(RUNNING, NoReason), Snapshot(FAILED, FATAL_ERROR),
     Snapshot(FAILED, KILLED), Snapshot(DELETED, NoReason)}

InitStop == InitWith({WorkerOnlyArgs})

ListedPodStop == ListEvent(StopSnapshots)

WatchedPodStop ==
    WatchEvent(AllNodes, {MODIFIED, EVENT_DELETED}, StopSnapshots)

NextStop ==
    \/ ListPods
    \/ ListedPodStop
    \/ ReleaseMissingNodes
    \/ WatchedPodStop
    \/ ProcessEventReturns
    \/ WatchEnds
    \/ StartAutoScaling
    \/ StopAutoScaling

FairSpec == InitStop /\ [][NextStop]_vars /\ WF_vars(NextStop)

\* The monitor thread of a job of one worker, scheduled fairly, with a
\* watcher that can fail and that also reports a pod the job does not hold
\* (the parameter server 0), and with _stop_process_event set at any time.
InitMonitor == InitWith({WorkerOnlyArgs})

ListPodsMonitor == ListStrayNodes(AllNodes)

ListedPodMonitor == ListEvent(ListSnapshots)

WatchedPodMonitor ==
    WatchEvent(AllNodes, {MODIFIED, EVENT_DELETED}, ListSnapshots)

WatchedStrayMonitor == WatchStrayEvent(AllNodes)

NextMonitor ==
    \/ ListPodsMonitor
    \/ ListRaises
    \/ ListedPodMonitor
    \/ ListStrayEvent
    \/ ReleaseMissingNodes
    \/ WatchedPodMonitor
    \/ WatchedStrayMonitor
    \/ EventDropped
    \/ ProcessEventReturns
    \/ WatchEnds
    \/ WatchRaises
    \/ BackoffEnds
    \/ StopProcessEvent

FairMonitorSpec ==
    InitMonitor /\ [][NextMonitor]_vars /\ WF_vars(NextMonitor)

\* The threads and the callers of an auto-scaler of either variant,
\* scheduled fairly, for a job of one parameter server and one worker.
ScalerConfigs ==
    {PsSwitchedOff,
     ScalerConfig(PARAMETER_SERVER, TRUE, FALSE, TRUE),
     ScalerConfig(PARAMETER_SERVER, TRUE, FALSE, FALSE),
     ScalerConfig(ALLREDUCE, FALSE, TRUE, TRUE),
     ScalerConfig(ALLREDUCE, FALSE, FALSE, TRUE)}

\* What the optimizer may return.
ResourcePlans ==
    {None,
     ResourcePlan([t \in {} |-> 0], {}),
     ResourcePlan([t \in {PS} |-> 2], {}),
     ResourcePlan([t \in {WORKER} |-> 2], {}),
     ResourcePlan([t \in {WORKER} |-> 0], {}),
     ResourcePlan([t \in {} |-> 0], {PodName(PS, "0")}),
     ResourcePlan([t \in {} |-> 0], {PodName(WORKER, "0")})}

InitScalers == InitAll({BaseArgs}, ScalerConfigs)

\* Starts and stops in any order, with an optimizer that has no plan.
OptimizeWithoutPlan == OptimizeCycle({None})

AdjustWithoutPlan == AdjustWorkerCycle({None})

NextScaler ==
    \/ StartAutoScaling
    \/ StopAutoScaling
    \/ Tick
    \/ OptimizeWithoutPlan
    \/ AdjustWorkerCheck
    \/ AdjustWithoutPlan
    \/ ReducePending

\* Every thread that can run does run, and time goes on; the callers of
\* start_auto_scaling and stop_auto_scaling owe nothing.
FairScalerSpec ==
    /\ InitScalers
    /\ [][NextScaler]_vars
    /\ WF_vars(Tick)
    /\ WF_vars(ReducePending)
    /\ WF_vars(OptimizeWithoutPlan)
    /\ WF_vars(AdjustWorkerCheck)
    /\ WF_vars(AdjustWithoutPlan)

\* An auto-scaler that is started and never stopped, with an optimizer
\* that returns any of ResourcePlans and callers that execute them.
OptimizeRunningResource == OptimizeCycle(ResourcePlans)

AdjustWorker == AdjustWorkerCycle(ResourcePlans)

ExecuteOptimizationPlan == ExecutePlan(ResourcePlans)

NextRunning ==
    \/ StartAutoScaling
    \/ Tick
    \/ OptimizeRunningResource
    \/ AdjustWorkerCheck
    \/ AdjustWorker
    \/ ReducePending
    \/ ExecuteOptimizationPlan

RunningScalerSpec ==
    InitScalers /\ [][NextRunning]_vars /\ WF_vars(NextRunning)

\* The job of S1 while the training datasets are registered: an empty one
\* and two with records.
Datasets == {Dataset("d0", 0), Dataset("d1", 1), Dataset("d2", 1)}

RegisterDataset == SetTrainingDataset(Datasets)

NextDataset == NextS1 \/ RegisterDataset

DatasetSpec == InitS1 /\ [][NextDataset]_vars

\* An AllReduce job of two workers whose auto-scaler adjusts the workers,
\* while the monitor reports worker 0 running or failed and the optimizer
\* proposes one, two or three workers.
AllreduceArgs ==
    [BaseArgs EXCEPT !.distribution_strategy = ALLREDUCE,
                     !.num_ps_pods = 0, !.num_workers = 2,
                     !.worker_memory = 4096]

WorkerPlans == {ResourcePlan([t \in {WORKER} |-> n], {}) : n \in 1 .. 3}

AllreduceSnapshots == {Snapshot(RUNNING, NoReason), Snapshot(FAILED, KILLED)}

InitAllreduce ==
    InitAll({AllreduceArgs}, {ScalerConfig(ALLREDUCE, FALSE, TRUE, TRUE)})

ListPodsAllreduce == ListNodes({Worker0})

ListedPodAllreduce == ListEvent(AllreduceSnapshots)

WatchedPodAllreduce == WatchEvent({Worker0}, {MODIFIED}, AllreduceSnapshots)

AdjustWorkerTo == AdjustWorkerCycle(WorkerPlans)

NextAllreduce ==
    \/ ListPodsAllreduce
    \/ ListedPodAllreduce
    \/ ReleaseMissingNodes
    \/ WatchedPodAllreduce
    \/ ProcessEventReturns
    \/ StartAutoScaling
    \/ Tick
    \/ AdjustWorkerCheck
    \/ AdjustWorkerTo

AllreduceSpec ==
    InitAllreduce /\ [][NextAllreduce]_vars /\ WF_vars(NextAllreduce)

\* Jobs of one parameter server and two workers under every setting of
\* ps_is_critical and critical_worker_index; worker 0 runs and is killed.
CriticalArgs ==
    {[BaseArgs EXCEPT !.num_workers = 2,
                      !.worker_memory = 4096,
                      !.ps_relaunch_max_num = 2,
                      !.ps_is_critical = c,
                      !.critical_worker_index = w] :
        c \in BOOLEAN, w \in {"default", "all", "0:3", "1:2"}}

InitCritical == InitWith(CriticalArgs)

NextCritical ==
    \/ ListNodes({Worker0})
    \/ ListEvent(AllreduceSnapshots)
    \/ ReleaseMissingNodes
    \/ WatchEvent({Worker0}, {MODIFIED}, AllreduceSnapshots)
    \/ ProcessEventReturns
    \/ WatchEnds

CriticalSpec == InitCritical /\ [][NextCritical]_vars

\* ------------------------------------------------------------------------
\* Properties
\* ------------------------------------------------------------------------

Node(n) == job_nodes[n]

Called(n) == InCall /\ call.node = n

\* The decision of the running call was taken by _should_relaunch.
Decided == InCall /\ ~call.returned_early

CallFlow == NODE_STATE_FLOWS[call.flow]

\* C1 (as claimed): in every reachable state every node satisfies
\* relaunch_count <= max_relaunch_count + 1, whatever the exit reasons.
C1_CountWithinBudgetPlusOne ==
    \A n \in DOMAIN job_nodes :
        Node(n).relaunch_count <= Node(n).max_relaunch_count + 1

\* C1 (amended): in every reachable state every node for which no relaunch
\* was decided with exit reason KILLED satisfies
\* relaunch_count <= max_relaunch_count + 1.
C1_CountWithinBudgetUnlessKilled ==
    \A n \in DOMAIN job_nodes :
        n \notin killed_relaunched =>
            Node(n).relaunch_count <= Node(n).max_relaunch_count + 1

\* C1 witness: a relaunch was just decided for a node never relaunched for
\* KILLED, and took its count to max_relaunch_count + 1.
C1_Witness ==
    \E n \in DOMAIN job_nodes :
        /\ Called(n) /\ call.should_relaunch
        /\ n \notin killed_relaunched
        /\ Node(n).relaunch_count = Node(n).max_relaunch_count + 1

\* C2 (as claimed): whenever no _process_event call is in progress every
\* node satisfies relaunch_count <= max_relaunch_count.
C2_AtRestWithinBudget ==
    ~InCall =>
        \A n \in DOMAIN job_nodes :
            Node(n).relaunch_count <= Node(n).max_relaunch_count

\* C2 (amended): whenever no _process_event call is in progress every node
\* for which no relaunch was decided with exit reason KILLED satisfies
\* relaunch_count <= max_relaunch_count + 1 (the count reached by the
\* decision is kept when the call returns).
C2_AtRestWithinBudgetPlusOne ==
    ~InCall =>
        \A n \in DOMAIN job_nodes :
            n \notin killed_relaunched =>
                Node(n).relaunch_count <= Node(n).max_relaunch_count + 1

\* C2 witness: at rest, a node never relaunched for KILLED holds
\* relaunch_count = max_relaunch_count + 1.
C2_Witness ==
    /\ ~InCall
    /\ \E n \in DOMAIN job_nodes :
          /\ n \notin killed_relaunched
          /\ Node(n).relaunch_count = Node(n).max_relaunch_count + 1

\* C3: no flow row from SUCCEEDED asks for a relaunch, and a call that
\* found its node SUCCEEDED decides no relaunch (_relaunch_typed_pod is not
\* called) and leaves relaunch_count as it was.
C3_SucceededNeverRelaunched ==
    /\ \A i \in DOMAIN NODE_STATE_FLOWS :
          NODE_STATE_FLOWS[i].from_status = SUCCEEDED =>
              ~NODE_STATE_FLOWS[i].should_relaunch
    /\ (InCall /\ call.old_status = SUCCEEDED) =>
          /\ ~call.should_relaunch
          /\ Node(call.node).relaunch_count = call.old_count
          /\ \/ call.flow = NoFlow
             \/ /\ CallFlow.from_status = SUCCEEDED
                /\ ~CallFlow.should_relaunch

\* C3 witness: a DELETED event was processed for a SUCCEEDED node and
\* matched the SUCCEEDED -> DELETED row.
C3_Witness ==
    /\ InCall
    /\ call.old_status = SUCCEEDED
    /\ call.flow # NoFlow
    /\ Node(call.node).status = DELETED

\* The call handles a failure of worker 0 as in scenario S1: MODIFIED,
\* RUNNING -> FAILED, exit reason KILLED, after `failures` earlier relaunches.
S1Failure(failures) ==
    /\ Called(Worker0)
    /\ call.event_type = MODIFIED
    /\ call.old_status = RUNNING
    /\ Node(Worker0).status = FAILED
    /\ call.exit_reason = KILLED
    /\ call.old_count = failures

\* C4 (as claimed): in scenario S1 the second identical failure of worker 0
\* yields should_relaunch = false.
C4_SecondFailureNotRelaunched ==
    S1Failure(1) => ~call.should_relaunch

\* C4 (amended): in scenario S1 the first and the second failure of worker 0
\* both yield should_relaunch = true and increment relaunch_count, to 1 and
\* to 2 (a KILLED node is relaunched whatever its count, and the budget of
\* worker 0 is the 3 of the critical map).
C4_SecondFailureRelaunched ==
    /\ Node(Worker0).max_relaunch_count = 3
    /\ \A failures \in {0, 1} :
          S1Failure(failures) =>
              /\ call.should_relaunch
              /\ Node(Worker0).relaunch_count = failures + 1

\* C4 witness: the second failure of worker 0 has been decided.
C4_Witness == S1Failure(1)

\* The node of the running call cannot be relaunched by the rules of C5.
Unrelaunchable(n) ==
    \/ Node(n).exit_reason = FATAL_ERROR
    \/ Node(n).exit_reason = OOM /\ Node(n).memory > MAX_MEMORY
    \/ Node(n).exit_reason = OOM /\ call.old_count >= Node(n).max_relaunch_count

\* C5: when _should_relaunch decides for a node whose exit reason is
\* FATAL_ERROR, or OOM with memory above MAX_MEMORY, or OOM with
\* relaunch_count >= max_relaunch_count, it returns false and leaves
\* relaunch_count unchanged, for every flow and every relaunch_count.
C5_FatalNeverRelaunched ==
    (Decided /\ Unrelaunchable(call.node)) =>
        /\ ~call.should_relaunch
        /\ Node(call.node).relaunch_count = call.old_count

\* C5 witness: an OOM node below the memory ceiling that has used up its
\* budget was refused on a flow that asks for a relaunch.
C5_Witness ==
    /\ Decided
    /\ CallFlow.should_relaunch
    /\ Node(call.node).exit_reason = OOM
    /\ Node(call.node).memory <= MAX_MEMORY
    /\ call.old_count >= Node(call.node).max_relaunch_count
    /\ call.old_count > 0

\* The call handled a FAILED event with exit reason OOM of a node whose
\* used memory is above MAX_MEMORY.
OomOverCeiling ==
    /\ Decided
    /\ CallFlow.to_status = FAILED
    /\ Node(call.node).exit_reason = OOM
    /\ Node(call.node).memory > MAX_MEMORY

\* C6 (as claimed): after such an event the node is marked non-relaunchable.
C6_MarkedNonRelaunchable ==
    OomOverCeiling => ~Node(call.node).relaunchable

\* C6 (amended): after such an event the decision is should_relaunch = false
\* and relaunch_count is unchanged, but node.relaunchable keeps its value
\* true: the node is not marked non-relaunchable.
C6_RefusedButStillRelaunchable ==
    OomOverCeiling =>
        /\ ~call.should_relaunch
        /\ Node(call.node).relaunch_count = call.old_count
        /\ Node(call.node).relaunchable

\* C6 witness: an OOM failure above the ceiling was handled.
C6_Witness == OomOverCeiling

\* A critical node reached FAILED or DELETED and the decision was false.
CriticalNodeLost ==
    /\ Decided
    /\ Node(call.node).critical
    /\ CallFlow.to_status \in {FAILED, DELETED}
    /\ ~call.should_relaunch

\* C7: whenever a critical node reaches FAILED or DELETED and is not
\* relaunched, suggested_stop() eventually returns true.
C7_StopSuggested == CriticalNodeLost ~> suggested_stop

\* The callback the dispatch policy selects for a flow.
SelectedCallback(f) ==
    CASE f.to_status = RUNNING -> "on_node_started"
      [] f.to_status = SUCCEEDED -> "on_node_succeeded"
      [] f.to_status = FAILED -> "on_node_failed"
      [] f.to_status = DELETED /\ f.from_status \notin {FAILED, SUCCEEDED} ->
             "on_node_deleted"
      [] OTHER -> "none"

C9_NoDuplicateRelaunch ==
    \A n \in DOMAIN job_nodes : since_release[n] <= 1

\* C9 witness: a released node was relaunched by a first DELETED event, and a
\* second DELETED event for it has been processed.
C9_Witness ==
    \E n \in DOMAIN job_nodes :
        /\ Called(n)
        /\ Node(n).is_released
        /\ since_release[n] = 1
        /\ call.event_type = EVENT_DELETED
        /\ call.old_status = DELETED
        /\ Node(n).relaunch_count >= 1

ReleasePass == monitor = "list_events" /\ monitor' = "watch"

\* C10: the released-marking pass of a bulk list marks exactly the nodes
\* that are not INITIAL, not yet released and absent from the list; no other
\* step changes is_released; and a node is marked at most once.
C10_ReleasedMarking ==
    [][\A n \in DOMAIN job_nodes :
          /\ mark_count'[n] <= 1
          /\ Node(n).is_released => job_nodes'[n].is_released
          /\ IF ReleasePass
             THEN /\ job_nodes'[n].is_released =
                        \/ Node(n).is_released
                        \/ (Node(n).status # INITIAL /\ n \notin exist_pods)
                  /\ mark_count'[n] - mark_count[n] =
                        IF /\ ~Node(n).is_released
                           /\ Node(n).status # INITIAL
                           /\ n \notin exist_pods
                        THEN 1 ELSE 0
             ELSE /\ job_nodes'[n].is_released = Node(n).is_released
                  /\ mark_count'[n] = mark_count[n]]_vars

\* C10 witness: after a list that held the worker and omitted the parameter
\* server, the parameter server is released and the worker is not.
C10_Witness ==
    /\ monitor = "watch"
    /\ exist_pods = {Worker0}
    /\ Node(<<PS, 0>>).is_released
    /\ mark_count[<<PS, 0>>] = 1
    /\ Node(Worker0).status # INITIAL
    /\ ~Node(Worker0).is_released

\* The monitor thread has ended (only an uncaught exception ends it).
MonitorEnded == monitor = "dead"

\* C11: once _stop_process_event is true, the monitor loop eventually
\* terminates: it consumes no more watch events and lists no more.
C11_StopTerminatesMonitor == stop_process_event ~> MonitorEnded

\* C12: a failure of the watcher's watch() or list() never ends the monitor
\* loop (so that a later list() can follow it).
C12_SchedulerErrorSurvived == ~(MonitorEnded /\ uncaught = "list")

\* The next step of the monitor handles an event of a node that job_nodes
\* does not hold, from the watch stream or from a bulk list.
StrayEventStep ==
    \/ monitor = "watch" /\ monitor' = "watch_dropped"
    \/ /\ monitor = "list_events"
       /\ todo # {}
       /\ First(todo) \notin DOMAIN job_nodes
       /\ monitor' # monitor

\* C13: an event of a node that job_nodes does not hold is dropped with no
\* state change and does not stop the monitor, on the watch stream and in a
\* bulk list alike.
C13_StrayEventDropped ==
    [][StrayEventStep =>
          /\ UNCHANGED << job_nodes, pending_relaunch_count,
                          pod_event_callbacks >>
          /\ ~MonitorEnded']_vars

\* C14: every write of the Node Manager to a field of a node in job_nodes
\* is made while it holds the manager-wide lock.
C14_WritesUnderLock == \A w \in writes : w.locked

\* C15: a start_auto_scaling call made while _autoscaling_started is true
\* changes no state of the auto-scaler, does not set the perf monitor's
\* target and spawns no optimization loop, in both variants.
C15_StartIdempotent ==
    [][(effect'.op = "start" /\ autoscaling_started) =>
          /\ ~effect'.set_target
          /\ ~effect'.spawned
          /\ UNCHANGED << autoscaling_started, perf_target, job_resource,
                          loops, reducer, suggested_stop >>]_vars

\* C15 witness: start_auto_scaling was called while the scaler was started
\* and its optimization loop alive.
C15_Witness ==
    /\ effect.op = "start"
    /\ effect.was_started
    /\ autoscaling_started
    /\ Cardinality(Alive) = 1

\* C16: at most one optimization loop of the auto-scaler is alive.
C16_OneLoopAlive == Cardinality(Alive) <= 1

\* C17: once start_auto_scaling was called on the PS auto-scaler, the
\* pending-node reducer eventually stops, whatever stop_auto_scaling calls
\* follow.
C17_ReducerStops ==
    (scaler_kind = PARAMETER_SERVER /\ effect.op = "start")
        ~> (reducer.pc = "done")

\* C18: the Scaler is never invoked with an empty ScalePlan.
C18_NoEmptyScale == effect.scaled => ~scale_plan_empty(effect.scale_plan)

\* The last step was a cycle of the PS optimization loop.
PsCycle == scaler_kind = PARAMETER_SERVER /\ effect.op = "cycle"

\* C19: a cycle of the PS optimization loop asks the optimizer for a plan,
\* and can execute one, only if the worker adjustment has finished, more
\* than seconds_interval_to_optimize has passed since last_plan_time, and
\* no PS migration is in flight.
C19_RequestGuard ==
    PsCycle =>
        /\ effect.requested =>
               /\ effect.finished
               /\ effect.elapsed
               /\ ~effect.migrating
        /\ (effect.executed \/ effect.scaled) => effect.requested

\* C19 witness: a cycle requested a plan and handed a scale plan to the
\* Scaler.
C19_Witness ==
    /\ PsCycle
    /\ effect.requested
    /\ effect.scaled
    /\ ~scale_plan_empty(effect.scale_plan)

\* C20: two consecutive plan requests of the PS optimization loop are more
\* than seconds_interval_to_optimize apart.
C20_RequestsApart ==
    (PsCycle /\ effect.requested /\ effect.gap # -1) =>
        effect.gap > seconds_interval_to_optimize

\* The last step called execute_job_optimization_plan with no plan or with
\* an empty one.
ExecutedNothing ==
    /\ effect.executed
    /\ (effect.plan = None \/ resource_plan_empty(effect.plan))

\* C21: execute_job_optimization_plan with a null or empty ResourcePlan is
\* a no-op in both variants: job_resource and the perf monitor's target and
\* running window are unchanged, no manager operation is called and the
\* Scaler is not invoked.
C21_EmptyPlanNoOp ==
    [][ExecutedNothing' =>
          /\ UNCHANGED << job_resource, perf_target >>
          /\ effect'.calls = {}
          /\ ~effect'.perf_reset
          /\ ~effect'.scaled]_vars

\* C21 witness: execute_job_optimization_plan was called directly with an
\* empty plan that is not None, after the declared counts had changed.
C21_Witness ==
    /\ effect.op = "execute"
    /\ ExecutedNothing
    /\ effect.plan # None
    /\ job_resource[WORKER] = 2

\* The last step called the PS variant's execute_job_optimization_plan with
\* a plan that is not empty.
PsExecuted ==
    /\ scaler_kind = PARAMETER_SERVER
    /\ effect.executed
    /\ ~ExecutedNothing

\* C22: every PS-variant execute_job_optimization_plan call with a
\* non-empty plan invokes the Scaler, and the ps_addrs of the ScalePlan it
\* hands over equal ps_manager.get_ps_addrs() at that moment.
C22_PsAddrsCurrent ==
    PsExecuted =>
        /\ effect.scaled
        /\ effect.scale_plan.ps_addrs = effect.ps_addrs

\* The last step was a cycle of the AllReduce loop that got a plan with a
\* WORKER group.
AdjustCycle ==
    /\ scaler_kind = ALLREDUCE
    /\ effect.op = "cycle"
    /\ effect.plan # None
    /\ WORKER \in DOMAIN effect.plan.node_group_resources

\* The WORKER count the plan of the last cycle proposed.
Proposed == effect.plan.node_group_resources[WORKER]

\* The step is such a cycle: a loop thread goes from its sleep through the
\* rest of the iteration.
AdjustStep ==
    /\ AdjustCycle'
    /\ \E l \in LoopIds : loops[l].pc = "sleep" /\ loops'[l].pc = "check"

\* A cycle whose plan proposes no more workers than are alive changes
\* nothing and does not call the Scaler.
SkippedCycleNoOp ==
    (AdjustStep /\ Proposed' <= get_alive_worker_num) =>
        /\ UNCHANGED << job_resource, perf_target >>
        /\ ~effect'.executed
        /\ effect'.calls = {}
        /\ ~effect'.scaled

\* C23 as claimed: the AllReduce loop skips a plan that proposes no more
\* workers than are alive, and the declared WORKER count of job_resource
\* never decreases.
C23_DeclaredNeverDecreases ==
    [][/\ SkippedCycleNoOp
       /\ AdjustStep => job_resource'[WORKER] >= job_resource[WORKER]]_vars

\* C23 amended: the AllReduce loop skips a plan that proposes no more
\* workers than are alive, and a cycle changes the declared WORKER count
\* only to a count above the number of alive workers.
C23_DeclaredAboveAlive ==
    [][/\ SkippedCycleNoOp
       /\ (AdjustStep /\ job_resource'[WORKER] # job_resource[WORKER]) =>
              /\ job_resource'[WORKER] = Proposed'
              /\ job_resource'[WORKER] > get_alive_worker_num]_vars

\* C23 witness: with a worker lost, a cycle executed a plan that proposes
\* more workers than are alive and fewer than were declared.
C23_Witness ==
    /\ AdjustCycle
    /\ effect.executed
    /\ effect.scaled
    /\ get_alive_worker_num = 1
    /\ job_resource[WORKER] = 2
    /\ job_nodes[Worker0].status = FAILED

\* C24: when the Scaler fails during execute_job_optimization_plan, the
\* caller still obtains the ScalePlan that was handed to the Scaler.
C24_PlanReturnedOnFailure ==
    (effect.executed /\ effect.scaled /\ effect.scale_failed) =>
        effect.returned

\* With _autoscaling_started false, no iteration of an optimization loop
\* begins: the PS loop runs no cycle, and a loop thread that stands at its
\* flag check only leaves.
NoIterationBegins ==
    ~autoscaling_started =>
        /\ scaler_kind = PARAMETER_SERVER => effect'.op # "cycle"
        /\ \A l \in LoopIds :
              (loops[l].pc = "check" /\ loops'[l].pc # "check") =>
                  loops'[l].pc = "free"

\* C25: after stop_auto_scaling, with no later start_auto_scaling, every
\* optimization loop eventually exits, and no iteration that begins while
\* the flag is false executes a plan.
C25_LoopsStop ==
    /\ [][NoIterationBegins]_vars
    /\ <>[](~autoscaling_started) => <>[](Alive = {})

\* C25 witness: the scaler was started and stopped, and its loop has left.
C25_Witness ==
    /\ effect.op = "exit"
    /\ ~autoscaling_started
    /\ Alive = {}

FlowMatches(old, type, new) ==
    LET flow == get_node_state_flow(old, type, new)
    IN flow # NoFlow =>
          /\ NODE_STATE_FLOWS[flow].from_status = old
          /\ NODE_STATE_FLOWS[flow].to_status = new

\* The row that NODE_STATE_FLOWS[i] of the program denotes; a negative
\* index counts from the end.
ProgramRow(i) ==
    IF i >= 0 THEN i + 1 ELSE Len(NODE_STATE_FLOWS) + 1 + i

\* C27: for every (old_status, event_type, new_status) get_node_state_flow
\* returns None or a flow from old_status to new_status, for the triple of
\* every _process_event call too; and the four lookups of the test resolve
\* to rows 2, 5, 8 (should_relaunch true) and -2 (should_relaunch false).
C27_FlowLookup ==
    /\ \A old \in NodeStatus, type \in NodeEventType, new \in NodeStatus :
           FlowMatches(old, type, new)
    /\ InCall =>
           /\ call.flow =
                  get_node_state_flow(call.old_status, call.event_type,
                                      Node(call.node).status)
           /\ FlowMatches(call.old_status, call.event_type,
                          Node(call.node).status)
    /\ get_node_state_flow(PENDING, MODIFIED, RUNNING) = ProgramRow(2)
    /\ get_node_state_flow(RUNNING, MODIFIED, SUCCEEDED) = ProgramRow(5)
    /\ get_node_state_flow(RUNNING, EVENT_DELETED, DELETED) = ProgramRow(8)
    /\ NODE_STATE_FLOWS[ProgramRow(8)].should_relaunch
    /\ get_node_state_flow(SUCCEEDED, EVENT_DELETED, DELETED) =
           ProgramRow(-2)
    /\ ~NODE_STATE_FLOWS[ProgramRow(-2)].should_relaunch

\* C27 witness: the monitor looked up the flow of a running node that was
\* deleted and found row 8.
C27_Witness ==
    /\ InCall
    /\ call.old_status = RUNNING
    /\ call.event_type = EVENT_DELETED
    /\ Node(call.node).status = DELETED
    /\ call.flow = ProgramRow(8)

\* C28: job_nodes holds exactly one node for each (type, id) of the job
\* resource configuration; events, bulk lists and relaunches never add or
\* remove an entry.
C28_NodeKeysFixed ==
    DOMAIN job_nodes =
        {<< PS, i >> : i \in 0 .. (args.num_ps_pods - 1)}
            \cup {<< WORKER, i >> : i \in 0 .. (args.num_workers - 1)}

\* C28 witness: a node that a bulk list marked released has been relaunched
\* and the call has returned.
C28_Witness ==
    \E n \in DOMAIN job_nodes :
        /\ ~InCall
        /\ Node(n).is_released
        /\ Node(n).relaunch_count >= 1
        /\ Node(n).status = DELETED

\* The monitor starts _process_event on this step.
AppliesEvent == ~InCall /\ InCall'

\* The step takes from the pending events of watch() one that no pending
\* event of the same node precedes, and applies it.
TakesEarliestOfNode ==
    \E i \in 1 .. Len(stream) :
        /\ stream' = RemoveAt(stream, i)
        /\ call'.node = stream[i].node
        /\ call'.event_type = stream[i].event_type
        /\ call'.status = stream[i].status
        /\ \A j \in 1 .. (i - 1) : stream[j].node # stream[i].node

\* C29: the events of a node are applied in the order the watcher delivered
\* them: _process_event runs for one event at a time; an event of watch() is
\* applied only when no event of the same node delivered before it is still
\* pending; the pending events keep their order and a new one joins behind
\* them; and once watch() has failed none of its pending events is applied
\* after the pods that the following list() returns.
C29_ArrivalOrder ==
    [][/\ InCall => ~InCall' \/ UNCHANGED << call, job_nodes >>
       /\ AppliesEvent /\ monitor = "watch" => TakesEarliestOfNode
       /\ AppliesEvent /\ monitor # "watch" =>
              /\ monitor = "list_events"
              /\ stream = << >>
              /\ call'.node \in todo
              /\ todo' = todo \ {call'.node}
       /\ ~AppliesEvent =>
              \/ stream' = stream
              \/ Len(stream') = Len(stream) + 1
                     /\ SubSeq(stream', 1, Len(stream)) = stream
              \/ monitor' = "backoff" /\ stream' = << >>
       /\ monitor' \notin {"watch", "watch_called"} => stream' = << >>]_vars

\* After a failure of watch() and a new list(), an event of watch() is being
\* applied to a node while a later event of the same node is pending.
C29_Witness ==
    /\ monitor = "watch_called"
    /\ stream # << >>
    /\ stream[1].node = call.node
    /\ \E m \in DOMAIN job_nodes : mark_count[m] >= 1

\* The call that begins on this step found no flow, or a flow that starts
\* from SUCCEEDED.
NullOrSucceededFlow ==
    \/ call'.flow = NoFlow
    \/ NODE_STATE_FLOWS[call'.flow].from_status = SUCCEEDED

\* C30: _process_event always sets the node's status to the status of the
\* event, also when no flow matches; and when the flow is null or starts
\* from SUCCEEDED nothing else of the node changes (exit_reason,
\* relaunch_count, is_recovered_oom and is_released included), no other
\* node changes, _pending_relaunch_count is unchanged, no callback fires
\* and no relaunch is decided or issued.
C30_StatusOnly ==
    [][/\ AppliesEvent =>
              /\ job_nodes'[call'.node].status = call'.status
              /\ NullOrSucceededFlow =>
                     /\ job_nodes' =
                            [job_nodes EXCEPT
                                ![call'.node].status = call'.status]
                     /\ pending_relaunch_count' = pending_relaunch_count
                     /\ \A l \in Listeners : fired'[l] = "none"
                     /\ ~call'.should_relaunch
       /\ InCall /\ ~InCall' /\ ~call.should_relaunch =>
              /\ job_nodes' = job_nodes
              /\ pending_relaunch_count' = pending_relaunch_count]_vars

\* A call for a succeeded node matched a flow, and the event carries an
\* exit reason the node does not have, while a listener is subscribed.
C30_Witness ==
    /\ InCall
    /\ call.flow # NoFlow
    /\ call.old_status = SUCCEEDED
    /\ call.exit_reason # Node(call.node).exit_reason
    /\ Node(call.node).status = call.status
    /\ pod_event_callbacks >= 1

\* The running call reached _should_relaunch with a flow that asks for a
\* relaunch and a relaunchable node, while _relaunch_pod is set.
EligibleCall ==
    /\ InCall
    /\ call.flow # NoFlow
    /\ CallFlow.from_status # SUCCEEDED
    /\ CallFlow.should_relaunch
    /\ relaunch_pod
    /\ Node(call.node).relaunchable

\* C31: a relaunchable node whose exit reason is KILLED is relaunched on
\* every flow that asks for a relaunch, however relaunch_count compares to
\* max_relaunch_count, and the decision adds one to relaunch_count.
C31_KilledAlwaysRelaunched ==
    (EligibleCall /\ call.exit_reason = KILLED) =>
        /\ call.should_relaunch
        /\ Node(call.node).exit_reason = KILLED
        /\ Node(call.node).relaunch_count = call.old_count + 1

\* A KILLED node that was already beyond its budget is relaunched again.
C31_Witness ==
    /\ EligibleCall
    /\ call.exit_reason = KILLED
    /\ call.old_count > Node(call.node).max_relaunch_count
    /\ call.should_relaunch

\* The running call reached _should_relaunch.
ReachedDecision ==
    /\ InCall
    /\ call.flow # NoFlow
    /\ CallFlow.from_status # SUCCEEDED

\* C32: for a relaunchable node whose exit reason is none of FATAL_ERROR,
\* OOM and KILLED and a flow that asks for a relaunch, _should_relaunch
\* returns true exactly when relaunch_count <= max_relaunch_count (false at
\* max_relaunch_count + 1) and then adds one to the count; for a flow that
\* asks for no relaunch it returns false and leaves relaunch_count as it was.
C32_OrdinaryBudget ==
    /\ (EligibleCall
            /\ call.exit_reason \notin {FATAL_ERROR, OOM, KILLED}) =>
           /\ call.should_relaunch <=>
                  call.old_count <= Node(call.node).max_relaunch_count
           /\ Node(call.node).relaunch_count =
                  IF call.should_relaunch THEN call.old_count + 1
                  ELSE call.old_count
    /\ (ReachedDecision /\ ~CallFlow.should_relaunch) =>
           /\ ~call.should_relaunch
           /\ Node(call.node).relaunch_count = call.old_count

\* An ordinary failure of a node whose count is max_relaunch_count + 1 was
\* refused.
C32_Witness ==
    /\ EligibleCall
    /\ call.exit_reason \notin {FATAL_ERROR, OOM, KILLED}
    /\ call.old_count = Node(call.node).max_relaunch_count + 1
    /\ ~call.should_relaunch

\* The thread leaves the locked block of _process_event normally.
LeavesBlock(t) ==
    /\ callers[t].pc \in {"read", "decided"}
    /\ callers'[t].pc = "outside"

\* The thread returns from _should_relaunch with a relaunch decided.
DecidesRelaunch(t) ==
    /\ callers[t].pc = "notified"
    /\ callers'[t].pc = "decided"
    /\ callers'[t].should_relaunch

\* C33: the relaunch decision and the increment of relaunch_count are one
\* atomic step under the manager lock.  relaunch_count changes only when a
\* call decides a relaunch, and then by one; and a call that leaves the
\* locked block leaves the node, its count and its decision as the whole
\* block would have made them alone from the node it found on entry, so
\* calls running side by side grant the relaunches of the calls taken one
\* after the other in the order they entered the block.
C33_DecisionAtomic ==
    [][/\ \A n \in DOMAIN job_nodes :
              job_nodes'[n].relaunch_count # job_nodes[n].relaunch_count =>
                  /\ job_nodes'[n].relaunch_count =
                         job_nodes[n].relaunch_count + 1
                  /\ \E t \in Callers :
                         DecidesRelaunch(t) /\ callers[t].event.node = n
       /\ \A t \in Callers :
              LeavesBlock(t) =>
                  LET e == callers[t].event
                      r == process_event_locked(callers[t].before, e)
                  IN /\ job_nodes'[e.node] = r.node
                     /\ callers'[t].should_relaunch = r.should_relaunch
                     /\ job_nodes'[e.node].relaunch_count =
                            callers[t].before.relaunch_count
                                + (IF r.should_relaunch THEN 1 ELSE 0)]_vars

\* A call that was granted a relaunch has left the locked block and has not
\* returned yet, while another thread holds the lock for an event of the
\* same node, whose count is already one.
C33_Witness ==
    \E t \in Callers : \E u \in Callers \ {t} :
        /\ callers[t].pc = "outside"
        /\ callers[t].should_relaunch
        /\ callers[u].pc \in {"held", "read", "updated", "notified", "decided"}
        /\ lock = u
        /\ callers[u].event.node = callers[t].event.node
        /\ callers[u].before.relaunch_count = 1

RECURSIVE RelaunchDecisions(_, _)
\* The relaunch decisions made so far for the nodes `S`: each one added one
\* to the relaunch_count of its node (C33).
RelaunchDecisions(nodes, S) ==
    IF S = {} THEN 0
    ELSE LET n == CHOOSE m \in S : TRUE
         IN nodes[n].relaunch_count + RelaunchDecisions(nodes, S \ {n})

\* C34: _pending_relaunch_count grows by one exactly on a _process_event
\* call that decides a relaunch while the strategy is the custom one (which
\* sets wait_pending_relaunch); no other step changes it, so it never
\* decreases; it equals the number of relaunch decisions made so far under
\* the custom strategy and stays 0 under any other.
C34_PendingCount ==
    [][/\ pending_relaunch_count' =
              IF /\ AppliesEvent
                 /\ call'.should_relaunch
                 /\ args.distribution_strategy = CUSTOM
              THEN pending_relaunch_count + 1
              ELSE pending_relaunch_count
       /\ pending_relaunch_count' =
              IF args.distribution_strategy = CUSTOM
              THEN RelaunchDecisions(job_nodes', DOMAIN job_nodes')
              ELSE 0]_vars

\* Under the custom strategy both nodes were relaunched and the second
\* decision has just been counted.
C34_Witness ==
    /\ InCall
    /\ call.should_relaunch
    /\ args.distribution_strategy = CUSTOM
    /\ pending_relaunch_count = 2
    /\ \A n \in DOMAIN job_nodes : Node(n).relaunch_count = 1

\* The groups of the executed plan whose count is above 0.
PlanPositive(plan) ==
    {t \in DOMAIN plan.node_group_resources :
        plan.node_group_resources[t] > 0}

\* The executed plan names a pod whose type tag (the last segment but one
\* of its name) is PS.
PlanMigratesPs(plan) ==
    \E n \in plan.node_resources : n[Len(n) - 1] = PS

\* C35: in the PS variant's execute_job_optimization_plan, job_resource
\* holds the count of every group of the plan with count > 0 and is
\* unchanged for every other group; adjust_ps and adjust_worker are called
\* for exactly the PS and WORKER groups with count > 0 and are given the
\* group as job_resource holds it after the update; the perf monitor's
\* running window is reset exactly when the plan has a PS group with
\* count > 0 or a PS-tagged entry of node_resources; and a WORKER group
\* with count > 0 sets the perf monitor's target to the number of chief
\* nodes plus the group's count, the target being unchanged otherwise.
C35_PsExecution ==
    [][PsExecuted' =>
          LET plan == effect'.plan
              positive == PlanPositive(plan)
          IN /\ \A t \in GroupTypes :
                    job_resource'[t] =
                        IF t \in positive
                        THEN plan.node_group_resources[t]
                        ELSE job_resource[t]
             /\ DOMAIN effect'.adjusted = positive \cap {PS, WORKER}
             /\ \A t \in DOMAIN effect'.adjusted :
                    effect'.adjusted[t] = job_resource'[t]
             /\ "adjust_ps" \in effect'.calls <=> PS \in positive
             /\ "adjust_worker" \in effect'.calls <=> WORKER \in positive
             /\ effect'.perf_reset <=>
                    (PS \in positive \/ PlanMigratesPs(plan))
             /\ perf_target' =
                    IF WORKER \in positive
                    THEN effect'.chief_num
                             + plan.node_group_resources[WORKER]
                    ELSE perf_target]_vars

\* A plan that grows the WORKER group from 1 to 2 was executed while the
\* job had one chief node.
C35_Witness ==
    /\ PsExecuted
    /\ WORKER \in PlanPositive(effect.plan)
    /\ effect.chief_num = 1
    /\ effect.adjusted[WORKER] = 2
    /\ job_resource[WORKER] = 2
    /\ perf_target = 3

\* The map that the job's critical_worker_index setting stands for.
ResolvedIndex ==
    IF args.critical_worker_index = "default" THEN (0 :> 1)
    ELSE IF args.critical_worker_index = "all"
    THEN [i \in 0 .. (args.num_workers - 1) |-> 1]
    ELSE IF args.critical_worker_index = "0:3" THEN (0 :> 3)
    ELSE (1 :> 2)

\* C36: after initialization, and ever after, every PS node is critical
\* with max_relaunch_count = ps_relaunch_max_num when ps_is_critical; a
\* worker is critical exactly when its index is a key of the resolved
\* critical_worker_index map, and then its max_relaunch_count is the map's
\* value; and "default" resolves to {0: 1}, "all" to every worker index
\* mapped to 1, "i:n" to {i: n}.
C36_Criticality ==
    /\ get_critical_worker_index(args) = ResolvedIndex
    /\ \A n \in DOMAIN job_nodes :
          /\ (n[1] = PS /\ args.ps_is_critical) =>
                 /\ Node(n).critical
                 /\ Node(n).max_relaunch_count = args.ps_relaunch_max_num
          /\ n[1] = WORKER =>
                 /\ Node(n).critical <=> n[2] \in DOMAIN ResolvedIndex
                 /\ Node(n).critical =>
                        Node(n).max_relaunch_count = ResolvedIndex[n[2]]

\* Worker 1 is the critical worker, with a budget of 2, next to a critical
\* parameter server with the budget 2; worker 0, not critical, was
\* relaunched.
C36_Witness ==
    /\ args.critical_worker_index = "1:2"
    /\ args.ps_is_critical
    /\ Node(<< WORKER, 1 >>).critical
    /\ Node(<< WORKER, 1 >>).max_relaunch_count = 2
    /\ ~Node(Worker0).critical
    /\ Node(<< PS, 0 >>).max_relaunch_count = 2
    /\ Node(Worker0).relaunch_count >= 1

\* The thread is inside the locked block of _process_event.
InBlock(t) ==
    callers[t].pc \in {"held", "read", "updated", "notified", "decided"}

\* C37: the manager lock is free whenever no _process_event call is inside
\* the locked block, also after a listener callback or the relaunch decision
\* raised there; so a thread waiting for the lock is never kept out by a
\* call that has ended.
C37_LockReleased ==
    (\A t \in Callers : ~InBlock(t)) => lock = NoThread

\* The monitor's call ended by an exception that is not handled yet, and the
\* main thread has entered the locked block with a later event since.
C37_Witness ==
    /\ callers["monitor"].pc = "raised"
    /\ lock = "main"
    /\ InBlock("main")

====
